---- MODULE Spec2Model ----
(***************************************************************************)
(* A model of the capture pipeline of the web-app cloning agent:           *)
(*   - the network correlator (network-capture.js: captureNetworkTraffic,  *)
(*     isApiCall, saveToFile),                                             *)
(*   - the scraping workflow (scraper/index.js: scrapeAsana,               *)
(*     capturePageData; workflow.js: the navigation steps and              *)
(*     dismissDialogs; browser.js: loginToAsana and its dismissDialogs),   *)
(*   - the DOM analyzer (scraper/dom-analyzer.js: analyzeDOMStructure),    *)
(*   - the visual tests (testing/visual-test.js: runVisualTests,           *)
(*     comparePages, compareCSSProperties, cssValuesMatch).                *)
(* Strings the code inspects character by character (URLs, content types)  *)
(* are sequences of one-character strings.                                 *)
(***************************************************************************)
EXTENDS Integers, Sequences, FiniteSets, TLC

VARIABLES
  \* ---- network correlator (one entry per captureNetworkTraffic call) ----
  attached,    \* number of request/response listener pairs on the page
  requestMap,  \* requestMap[c]: the pending map of correlator c (set of requestData)
  apiCalls,    \* apiCalls[c]: the finalized list of correlator c
  reading,     \* response handlers suspended in `await response.text()`
  net,         \* net[r]: the browser's request r
  flushPc,     \* flushPc[c]: position of a running saveToFile of correlator c
  flushed,     \* flushed[c]: what saveToFile of correlator c last wrote
  flushCount,  \* number of saveToFile calls made so far
  handled,     \* history: the response handlers that ran to their end
  \* ---- scraping workflow ----
  creds,       \* whether email and password are both set
  sections,    \* sections[p]: the page sections that are on the page captured as p
  pc,          \* position of scrapeAsana
  idx,         \* index of the selector strategy tried next in the current loop
  capName,     \* pageName argument of the running capturePageData ("" when none)
  pages,       \* scrapedData.pages (step names, in push order)
  disk,        \* names of the files written so far
  docWrites,   \* number of times scraped-data.json was written
  docPages,    \* the pages list held by scraped-data.json on disk
  browser,     \* "none" | "open" | "closed"
  closes,      \* number of browser.close() calls
  outcome,     \* "running" | "returning" | "throwing" | "done" | "failed"
  failedStep,  \* the position at which the error was raised ("" when none)
  activated,   \* triggers on which a click or fill was performed
  exhausted,   \* triggers whose strategies all failed
  matched,     \* strategy that matched in the latest trigger resolution
  dismissed,   \* a dialog-dismissal pass ran since the latest trigger activation
  clickedHidden, \* triggers activated on an element that was not visible
  tried,       \* the strategies attempted in the latest trigger resolution
  shots,       \* the debug paths page.screenshot was called with
  loginUrl,    \* page.url() when loginToAsana waited for the URL ("" before)
  loginLog,    \* what loginToAsana did to the login form, in order
  timedOut,    \* the waits that exceeded their timeout
  \* ---- dismissDialogs ----
  closeList,   \* the closeSelectors of the dismissDialogs that is called
  buttons,     \* buttons[i]: what page.$(closeList[i]) finds on the page
  dismissPc,   \* "idle" | "loop" | "escape" | "returned" | "thrown"
  dismissIdx,  \* position of the loop over closeList
  clicks,      \* the selectors whose button the running pass clicked, in order
  escapes,     \* Escape keystrokes the running pass delivered
  swallowed,   \* the running pass caught a rejection
  passes,      \* number of dismissDialogs calls made so far
  \* ---- DOM analyzer ----
  dom,         \* the element root detection found (appRoot), with its subtree
  snapshot,    \* what analyzeDOMStructure returned as `structure`
  \* ---- cssValuesMatch ----
  value1,      \* first argument
  value2,      \* second argument
  verdict,     \* the value returned
  \* ---- visual tests ----
  originalPage,  \* the original page as loaded: what each selector finds on it
  generatedPage, \* the generated page as loaded
  testPages,   \* the `pages` argument of runVisualTests
  testIdx,     \* position of the for loop over testPages
  results,     \* the results object of runVisualTests
  testPc,      \* position of runVisualTests
  openPages    \* pages that comparePages opened and has not closed

netVars == <<attached, requestMap, apiCalls, reading, net, flushPc, flushed, flushCount,
             handled>>
domVars == <<dom, snapshot>>
cssVars == <<value1, value2, verdict>>
testVars == <<originalPage, generatedPage, testPages, testIdx, results, testPc,
             openPages>>
dlgVars == <<closeList, buttons, dismissPc, dismissIdx, clicks, escapes, swallowed,
             passes>>
\* What a scraping run reads and never writes: the credentials, and the state of
\* the analyzer, of the test command and of the dismissal pass looked at alone.
envVars == <<creds, sections, domVars, cssVars, testVars, dlgVars>>
runVars == <<envVars, browser, closes, outcome, failedStep>>
\* History of a run: what was asked of the page, beyond the files written.
histVars == <<shots, loginUrl, loginLog, timedOut>>
outVars == <<capName, pages, disk, docWrites, docPages, histVars>>
trigVars == <<idx, activated, exhausted, matched, dismissed, clickedHidden, tried>>
flowVars == <<pc, runVars, outVars, trigVars>>
\* What the analyzer and the test command leave alone.
scrapeVarsOfRun == <<netVars, pc, creds, sections, browser, closes, outcome, failedStep, outVars,
                     trigVars>>
scrapeVars == <<dlgVars, scrapeVarsOfRun>>
vars == <<netVars, flowVars>>

(***************************************************************************)
(* Bounds of the model.                                                    *)
(***************************************************************************)
MaxReq == 2       \* requests the browser issues
MaxFlush == 2     \* saveToFile calls made by the harness

(***************************************************************************)
(* String helpers: String.prototype.toLowerCase and includes.              *)
(* A string is the sequence of its characters. An ASCII character is       *)
(* written as itself; any other character, and the grave accent, is        *)
(* denoted by its code point: "U+" followed by four to six upper-case      *)
(* hexadecimal digits.                                                     *)
(***************************************************************************)
UpperChars == <<"A","B","C","D","E","F","G","H","I","J","K","L","M","N","O","P","Q","R","S","T","U","V","W","X","Y","Z">>
LowerChars == <<"a","b","c","d","e","f","g","h","i","j","k","l","m","n","o","p","q","r","s","t","u","v","w","x","y","z">>
HexDigits == <<"0","1","2","3","4","5","6","7","8","9","A","B","C","D","E","F">>

IsHexDigit(d) == \E i \in 1..Len(HexDigits) : HexDigits[i] = d
HexValue(d) == (CHOOSE i \in 1..Len(HexDigits) : HexDigits[i] = d) - 1

\* The number that the hexadecimal digits from..to of text write.
RECURSIVE HexNumber(_, _, _)
HexNumber(text, from, to) ==
  IF to < from THEN 0
  ELSE 16 * HexNumber(text, from, to - 1) + HexValue(SubSeq(text, to, to))

RECURSIVE HexName(_, _)
HexName(n, width) ==
  IF n = 0 /\ width <= 0 THEN ""
  ELSE HexName(n \div 16, width - 1) \o HexDigits[(n % 16) + 1]

IsCodePointName(ch) ==
  /\ Len(ch) \in 6..8
  /\ SubSeq(ch, 1, 2) = "U+"
  /\ \A i \in 3..Len(ch) : IsHexDigit(SubSeq(ch, i, i))

\* The code point of a character that is denoted by its code point.
CodePoint(ch) == HexNumber(ch, 3, Len(ch))

\* The character with code point cp, for a lower-case letter or a code point
\* outside ASCII.
CharOf(cp) == IF cp \in 97..122 THEN LowerChars[cp - 96] ELSE "U+" \o HexName(cp, 4)

\* The lower-case mappings of the Unicode Character Database outside ASCII
\* (version 17.0), in
\* records of 16 hexadecimal digits: the first code point (5 digits), the last
\* (5), the step (1) and the lower case of the first (5). A record maps first,
\* first + step, ..., last, each by the same distance.
LowerRecord == 16
LowerTable ==
  "000C0000D61000E0000D8000DE1000F8001000012E2001010013200136200133001390014720013A"
  \o "0014A0017620014B00178001781000FF001790017D20017A00181001811002530018200184200183"
  \o "00186001861002540018700187100188001890018A1002560018B0018B10018C0018E0018E1001DD"
  \o "0018F0018F100259001900019010025B001910019110019200193001931002600019400194100263"
  \o "0019600196100269001970019710026800198001981001990019C0019C10026F0019D0019D100272"
  \o "0019F0019F100275001A0001A42001A1001A6001A6100280001A7001A71001A8001A9001A9100283"
  \o "001AC001AC1001AD001AE001AE100288001AF001AF1001B0001B1001B210028A001B3001B52001B4"
  \o "001B7001B7100292001B8001B81001B9001BC001BC1001BD001C4001C41001C6001C5001C51001C6"
  \o "001C7001C71001C9001C8001C81001C9001CA001CA1001CC001CB001DB2001CC001DE001EE2001DF"
  \o "001F1001F11001F3001F2001F42001F3001F6001F6100195001F7001F71001BF001F80021E2001F9"
  \o "002200022010019E00222002322002230023A0023A102C650023B0023B10023C0023D0023D10019A"
  \o "0023E0023E102C66002410024110024200243002431001800024400244100289002450024510028C"
  \o "002460024E200247003700037220037100376003761003770037F0037F1003F300386003861003AC"
  \o "003880038A1003AD0038C0038C1003CC0038E0038F1003CD00391003A11003B1003A3003AB1003C3"
  \o "003CF003CF1003D7003D8003EE2003D9003F4003F41003B8003F7003F71003F8003F9003F91003F2"
  \o "003FA003FA1003FB003FD003FF10037B004000040F100450004100042F1004300046000480200461"
  \o "0048A004BE20048B004C0004C01004CF004C1004CD2004C2004D00052E2004D10053100556100561"
  \o "010A0010C5102D00010C7010C7102D27010CD010CD102D2D013A0013EF10AB70013F0013F51013F8"
  \o "01C8901C89101C8A01C9001CBA1010D001CBD01CBF1010FD01E0001E94201E0101E9E01E9E1000DF"
  \o "01EA001EFE201EA101F0801F0F101F0001F1801F1D101F1001F2801F2F101F2001F3801F3F101F30"
  \o "01F4801F4D101F4001F5901F5F201F5101F6801F6F101F6001F8801F8F101F8001F9801F9F101F90"
  \o "01FA801FAF101FA001FB801FB9101FB001FBA01FBB101F7001FBC01FBC101FB301FC801FCB101F72"
  \o "01FCC01FCC101FC301FD801FD9101FD001FDA01FDB101F7601FE801FE9101FE001FEA01FEB101F7A"
  \o "01FEC01FEC101FE501FF801FF9101F7801FFA01FFB101F7C01FFC01FFC101FF302126021261003C9"
  \o "0212A0212A10006B0212B0212B1000E5021320213210214E021600216F1021700218302183102184"
  \o "024B6024CF1024D002C0002C2F102C3002C6002C60102C6102C6202C6210026B02C6302C63101D7D"
  \o "02C6402C6410027D02C6702C6B202C6802C6D02C6D10025102C6E02C6E10027102C6F02C6F100250"
  \o "02C7002C7010025202C7202C72102C7302C7502C75102C7602C7E02C7F10023F02C8002CE2202C81"
  \o "02CEB02CED202CEC02CF202CF2102CF30A6400A66C20A6410A6800A69A20A6810A7220A72E20A723"
  \o "0A7320A76E20A7330A7790A77B20A77A0A77D0A77D101D790A77E0A78620A77F0A78B0A78B10A78C"
  \o "0A78D0A78D1002650A7900A79220A7910A7960A7A820A7970A7AA0A7AA1002660A7AB0A7AB10025C"
  \o "0A7AC0A7AC1002610A7AD0A7AD10026C0A7AE0A7AE10026A0A7B00A7B010029E0A7B10A7B1100287"
  \o "0A7B20A7B210029D0A7B30A7B310AB530A7B40A7C220A7B50A7C40A7C410A7940A7C50A7C5100282"
  \o "0A7C60A7C6101D8E0A7C70A7C920A7C80A7CB0A7CB1002640A7CC0A7DA20A7CD0A7DC0A7DC10019B"
  \o "0A7F50A7F510A7F60FF210FF3A10FF411040010427110428104B0104D31104D81057010594210597"
  \o "10571105792105981057D105892105A41058D105912105B410595105951105BC10C8010CB2110CC0"
  \o "10D5010D65110D70118A0118BF1118C016E4016E5F116E6016EA016EB8116EBB1E9001E92111E922"

\* Final_Sigma of SpecialCasing looks at the cased letters and the
\* case-ignorable characters around a capital sigma. In records of 10
\* hexadecimal digits, first (5) and last (5), the ranges of the code points
\* outside ASCII that are cased and not case-ignorable:
RangeRecord == 10
CasedTable ==
  "000AA000AA000B5000B5000BA000BA000C0000D6000D8000F6000F8001BA001BC001BF001C400293"
  \o "00296002AF003700037300376003770037B0037D0037F0037F0038600386003880038A0038C0038C"
  \o "0038E003A1003A3003F5003F7004810048A0052F00531005560056000588010A0010C5010C7010C7"
  \o "010CD010CD010D0010FA010FD010FF013A0013F5013F8013FD01C8001C8A01C9001CBA01CBD01CBF"
  \o "01D0001D2B01D6B01D7701D7901D9A01E0001F1501F1801F1D01F2001F4501F4801F4D01F5001F57"
  \o "01F5901F5901F5B01F5B01F5D01F5D01F5F01F7D01F8001FB401FB601FBC01FBE01FBE01FC201FC4"
  \o "01FC601FCC01FD001FD301FD601FDB01FE001FEC01FF201FF401FF601FFC02102021020210702107"
  \o "0210A021130211502115021190211D0212402124021260212602128021280212A0212D0212F02134"
  \o "02139021390213C0213F02145021490214E0214E021600217F0218302184024B6024E902C0002C7B"
  \o "02C7E02CE402CEB02CEE02CF202CF302D0002D2502D2702D2702D2D02D2D0A6400A66D0A6800A69B"
  \o "0A7220A76F0A7710A7870A78B0A78E0A7900A7DC0A7F50A7F60A7FA0A7FA0AB300AB5A0AB600AB68"
  \o "0AB700ABBF0FB000FB060FB130FB170FF210FF3A0FF410FF5A104001044F104B0104D3104D8104FB"
  \o "105701057A1057C1058A1058C10592105941059510597105A1105A3105B1105B3105B9105BB105BC"
  \o "10C8010CB210CC010CF210D5010D6510D7010D85118A0118DF16E4016E7F16EA016EB816EBB16ED3"
  \o "1D4001D4541D4561D49C1D49E1D49F1D4A21D4A21D4A51D4A61D4A91D4AC1D4AE1D4B91D4BB1D4BB"
  \o "1D4BD1D4C31D4C51D5051D5071D50A1D50D1D5141D5161D51C1D51E1D5391D53B1D53E1D5401D544"
  \o "1D5461D5461D54A1D5501D5521D6A51D6A81D6C01D6C21D6DA1D6DC1D6FA1D6FC1D7141D7161D734"
  \o "1D7361D74E1D7501D76E1D7701D7881D78A1D7A81D7AA1D7C21D7C41D7CB1DF001DF091DF0B1DF1E"
  \o "1DF251DF2A1E9001E9431F1301F1491F1501F1691F1701F189"

\* and of those that are case-ignorable:
CaseIgnorableTable ==
  "000A8000A8000AD000AD000AF000AF000B4000B4000B7000B8002B00036F00374003750037A0037A"
  \o "00384003850038700387004830048900559005590055F0055F00591005BD005BF005BF005C1005C2"
  \o "005C4005C5005C7005C7005F4005F40060000605006100061A0061C0061C00640006400064B0065F"
  \o "0067000670006D6006DD006DF006E8006EA006ED0070F0070F0071100711007300074A007A6007B0"
  \o "007EB007F5007FA007FA007FD007FD008160082D008590085B00888008880089000891008970089F"
  \o "008C9009020093A0093A0093C0093C00941009480094D0094D009510095700962009630097100971"
  \o "0098100981009BC009BC009C1009C4009CD009CD009E2009E3009FE009FE00A0100A0200A3C00A3C"
  \o "00A4100A4200A4700A4800A4B00A4D00A5100A5100A7000A7100A7500A7500A8100A8200ABC00ABC"
  \o "00AC100AC500AC700AC800ACD00ACD00AE200AE300AFA00AFF00B0100B0100B3C00B3C00B3F00B3F"
  \o "00B4100B4400B4D00B4D00B5500B5600B6200B6300B8200B8200BC000BC000BCD00BCD00C0000C00"
  \o "00C0400C0400C3C00C3C00C3E00C4000C4600C4800C4A00C4D00C5500C5600C6200C6300C8100C81"
  \o "00CBC00CBC00CBF00CBF00CC600CC600CCC00CCD00CE200CE300D0000D0100D3B00D3C00D4100D44"
  \o "00D4D00D4D00D6200D6300D8100D8100DCA00DCA00DD200DD400DD600DD600E3100E3100E3400E3A"
  \o "00E4600E4E00EB100EB100EB400EBC00EC600EC600EC800ECE00F1800F1900F3500F3500F3700F37"
  \o "00F3900F3900F7100F7E00F8000F8400F8600F8700F8D00F9700F9900FBC00FC600FC60102D01030"
  \o "0103201037010390103A0103D0103E01058010590105E01060010710107401082010820108501086"
  \o "0108D0108D0109D0109D010FC010FC0135D0135F0171201714017320173301752017530177201773"
  \o "017B4017B5017B7017BD017C6017C6017C9017D3017D7017D7017DD017DD0180B0180F0184301843"
  \o "0188501886018A9018A9019200192201927019280193201932019390193B01A1701A1801A1B01A1B"
  \o "01A5601A5601A5801A5E01A6001A6001A6201A6201A6501A6C01A7301A7C01A7F01A7F01AA701AA7"
  \o "01AB001ADD01AE001AEB01B0001B0301B3401B3401B3601B3A01B3C01B3C01B4201B4201B6B01B73"
  \o "01B8001B8101BA201BA501BA801BA901BAB01BAD01BE601BE601BE801BE901BED01BED01BEF01BF1"
  \o "01C2C01C3301C3601C3701C7801C7D01CD001CD201CD401CE001CE201CE801CED01CED01CF401CF4"
  \o "01CF801CF901D2C01D6A01D7801D7801D9B01DFF01FBD01FBD01FBF01FC101FCD01FCF01FDD01FDF"
  \o "01FED01FEF01FFD01FFE0200B0200F0201802019020240202402027020270202A0202E0206002064"
  \o "020660206F02071020710207F0207F020900209C020D0020F002C7C02C7D02CEF02CF102D6F02D6F"
  \o "02D7F02D7F02DE002DFF02E2F02E2F03005030050302A0302D03031030350303B0303B030990309E"
  \o "030FC030FE0A0150A0150A4F80A4FD0A60C0A60C0A66F0A6720A6740A67D0A67F0A67F0A69C0A69F"
  \o "0A6F00A6F10A7000A7210A7700A7700A7880A78A0A7F10A7F40A7F80A7F90A8020A8020A8060A806"
  \o "0A80B0A80B0A8250A8260A82C0A82C0A8C40A8C50A8E00A8F10A8FF0A8FF0A9260A92D0A9470A951"
  \o "0A9800A9820A9B30A9B30A9B60A9B90A9BC0A9BD0A9CF0A9CF0A9E50A9E60AA290AA2E0AA310AA32"
  \o "0AA350AA360AA430AA430AA4C0AA4C0AA700AA700AA7C0AA7C0AAB00AAB00AAB20AAB40AAB70AAB8"
  \o "0AABE0AABF0AAC10AAC10AADD0AADD0AAEC0AAED0AAF30AAF40AAF60AAF60AB5B0AB5F0AB690AB6B"
  \o "0ABE50ABE50ABE80ABE80ABED0ABED0FB1E0FB1E0FBB20FBC20FE000FE0F0FE130FE130FE200FE2F"
  \o "0FE520FE520FE550FE550FEFF0FEFF0FF070FF070FF0E0FF0E0FF1A0FF1A0FF3E0FF3E0FF400FF40"
  \o "0FF700FF700FF9E0FF9F0FFE30FFE30FFF90FFFB101FD101FD102E0102E0103761037A1078010785"
  \o "10787107B0107B2107BA10A0110A0310A0510A0610A0C10A0F10A3810A3A10A3F10A3F10AE510AE6"
  \o "10D2410D2710D4E10D4E10D6910D6D10D6F10D6F10EAB10EAC10EC510EC510EFA10EFF10F4610F50"
  \o "10F8210F8511001110011103811046110701107011073110741107F11081110B3110B6110B9110BA"
  \o "110BD110BD110C2110C2110CD110CD1110011102111271112B1112D1113411173111731118011181"
  \o "111B6111BE111C9111CC111CF111CF1122F11231112341123411236112371123E1123E1124111241"
  \o "112DF112DF112E3112EA11300113011133B1133C1134011340113661136C1137011374113BB113C0"
  \o "113CE113CE113D0113D0113D2113D2113E1113E2114381143F114421144411446114461145E1145E"
  \o "114B3114B8114BA114BA114BF114C0114C2114C3115B2115B5115BC115BD115BF115C0115DC115DD"
  \o "116331163A1163D1163D1163F11640116AB116AB116AD116AD116B0116B5116B7116B71171D1171D"
  \o "1171F1171F1172211725117271172B1182F11837118391183A1193B1193C1193E1193E1194311943"
  \o "119D4119D7119DA119DB119E0119E011A0111A0A11A3311A3811A3B11A3E11A4711A4711A5111A56"
  \o "11A5911A5B11A8A11A9611A9811A9911B6011B6011B6211B6411B6611B6611C3011C3611C3811C3D"
  \o "11C3F11C3F11C9211CA711CAA11CB011CB211CB311CB511CB611D3111D3611D3A11D3A11D3C11D3D"
  \o "11D3F11D4511D4711D4711D9011D9111D9511D9511D9711D9711DD911DD911EF311EF411F0011F01"
  \o "11F3611F3A11F4011F4011F4211F4211F5A11F5A134301344013447134551611E161291612D1612F"
  \o "16AF016AF416B3016B3616B4016B4316D4016D4216D6B16D6C16F4F16F4F16F8F16F9F16FE016FE1"
  \o "16FE316FE416FF216FF31AFF01AFF31AFF51AFFB1AFFD1AFFE1BC9D1BC9E1BCA01BCA31CF001CF2D"
  \o "1CF301CF461D1671D1691D1731D1821D1851D18B1D1AA1D1AD1D2421D2441DA001DA361DA3B1DA6C"
  \o "1DA751DA751DA841DA841DA9B1DA9F1DAA11DAAF1E0001E0061E0081E0181E01B1E0211E0231E024"
  \o "1E0261E02A1E0301E06D1E08F1E08F1E1301E13D1E2AE1E2AE1E2EC1E2EF1E4EB1E4EF1E5EE1E5EF"
  \o "1E6E31E6E31E6E61E6E61E6EE1E6EF1E6F51E6F51E6FF1E6FF1E8D01E8D61E9441E94B1F3FB1F3FF"
  \o "E0001E0001E0020E007FE0100E01EF"

\* cp lies in one of the ranges of the table.
InRanges(table, cp) ==
  \E k \in 0..((Len(table) \div RangeRecord) - 1) :
    /\ HexNumber(table, k * RangeRecord + 1, k * RangeRecord + 5) <= cp
    /\ cp <= HexNumber(table, k * RangeRecord + 6, k * RangeRecord + 10)

\* The records of LowerTable that map cp, and what record k maps it to.
LowerField(k, from, to) == HexNumber(LowerTable, k * LowerRecord + from, k * LowerRecord + to)

LowerRecords(cp) ==
  {k \in 0..((Len(LowerTable) \div LowerRecord) - 1) :
     /\ cp \in LowerField(k, 1, 5)..LowerField(k, 6, 10)
     /\ (cp - LowerField(k, 1, 5)) % LowerField(k, 11, 11) = 0}

LowerBy(k, cp) == cp + LowerField(k, 12, 16) - LowerField(k, 1, 5)

IsAsciiLetter(ch) == \E i \in 1..Len(UpperChars) : ch = UpperChars[i] \/ ch = LowerChars[i]

\* 1 for a cased letter, 2 for a case-ignorable character, 0 for any other.
CaseClass(ch) ==
  IF Len(ch) = 1
  THEN (IF IsAsciiLetter(ch) THEN 1 ELSE IF ch \in {"'", ".", ":", "^"} THEN 2 ELSE 0)
  ELSE IF ~ IsCodePointName(ch) THEN 0
  ELSE IF ch = "U+0060" \/ InRanges(CaseIgnorableTable, CodePoint(ch)) THEN 2
  ELSE IF InRanges(CasedTable, CodePoint(ch)) THEN 1
  ELSE 0

\* The lower case of the character ch with code point cp, outside ASCII.
LowerOfMapped(ch, cp, records) ==
  IF records = {} THEN <<ch>> ELSE <<CharOf(LowerBy(CHOOSE k \in records : TRUE, cp))>>

LowerOfCodePoint(ch, cp) == LowerOfMapped(ch, cp, LowerRecords(cp))

\* ch.toLowerCase() of a one-character string: capital I with dot above is the
\* one character whose lower case is two characters.
toLowerChar(ch) ==
  IF Len(ch) = 1
  THEN LET upper == {i \in 1..Len(UpperChars) : UpperChars[i] = ch}
       IN  IF upper = {} THEN <<ch>> ELSE <<LowerChars[CHOOSE i \in upper : TRUE]>>
  ELSE IF ~ IsCodePointName(ch) THEN <<ch>>
  ELSE IF ch = "U+0130" THEN <<"i", "U+0307">>
  ELSE LowerOfCodePoint(ch, CodePoint(ch))

\* A capital sigma is lower-cased to the final sigma when a cased letter comes
\* before it and none comes after it, case-ignorable characters being skipped.
IsFinalPosition(class, i) ==
  /\ \E j \in 1..(i - 1) :
       class[j] = 1 /\ \A k \in (j + 1)..(i - 1) : class[k] = 2
  /\ ~ \E j \in (i + 1)..Len(class) :
         class[j] = 1 /\ \A k \in (i + 1)..(j - 1) : class[k] = 2

IsFinalSigma(s, i) ==
  /\ s[i] = "U+03A3"
  /\ IsFinalPosition([j \in 1..Len(s) |-> CaseClass(s[j])], i)

LowerAt(s, i) == IF IsFinalSigma(s, i) THEN <<"U+03C2">> ELSE toLowerChar(s[i])

RECURSIVE Flatten(_, _)
Flatten(parts, i) == IF i > Len(parts) THEN <<>> ELSE parts[i] \o Flatten(parts, i + 1)

Joined(parts) ==
  IF \A i \in 1..Len(parts) : Len(parts[i]) = 1
  THEN [i \in 1..Len(parts) |-> parts[i][1]]
  ELSE Flatten(parts, 1)

toLowerCase(s) == Joined([i \in 1..Len(s) |-> LowerAt(s, i)])

includes(s, p) ==
  \E i \in 0..(Len(s) - Len(p)) : SubSeq(s, i + 1, i + Len(p)) = p

(***************************************************************************)
(* isApiCall: the allow-list and the deny-list, on the lower-cased URL.    *)
(***************************************************************************)
apiPatterns ==
  << <<"/","a","p","i","/">>,
     <<"/","g","r","a","p","h","q","l">>,
     <<"/","r","e","s","t","/">>,
     <<"a","p","p",".","a","s","a","n","a",".","c","o","m","/","a","p","i">> >>

excludePatterns ==
  << <<".","j","s">>,
     <<".","c","s","s">>,
     <<".","p","n","g">>,
     <<".","j","p","g">>,
     <<".","j","p","e","g">>,
     <<".","g","i","f">>,
     <<".","s","v","g">>,
     <<".","w","o","f","f">>,
     <<".","w","o","f","f","2">>,
     <<".","t","t","f">>,
     <<".","i","c","o">>,
     <<"a","n","a","l","y","t","i","c","s">>,
     <<"t","r","a","c","k","i","n","g">>,
     <<"s","e","g","m","e","n","t",".","i","o">>,
     <<"g","o","o","g","l","e","-","a","n","a","l","y","t","i","c","s">> >>

\* A plausible slip: the deny-list is not consulted.
isApiCallAllowOnly(url) ==
  LET lowerUrl == toLowerCase(url)
  IN  \E i \in 1..Len(apiPatterns) : includes(lowerUrl, apiPatterns[i])

isApiCall(url) ==
  LET lowerUrl == toLowerCase(url)
      isApi == \E i \in 1..Len(apiPatterns) : includes(lowerUrl, apiPatterns[i])
      isNotExcluded ==
        ~ \E i \in 1..Len(excludePatterns) : includes(lowerUrl, excludePatterns[i])
  IN  isApi /\ isNotExcluded

(***************************************************************************)
(* The traffic the browser produces.                                       *)
(***************************************************************************)
UrlApi == <<"/","a","p","i","/","t">>                          \* /api/t
UrlApiUpper == <<"/","A","P","I","/","T">>                     \* /API/T
UrlApiPng == <<"/","a","p","i","/","a",".","p","n","g">>       \* /api/a.png
UrlApiPngUpper == <<"/","a","p","i","/","a",".","P","N","G">>  \* /api/a.PNG
UrlHome == <<"/","h","o","m","e">>                             \* /home

Urls == {UrlApi, UrlApiUpper, UrlApiPng, UrlApiPngUpper, UrlHome}

JsonMime == <<"a","p","p","l","i","c","a","t","i","o","n","/","j","s","o","n">>
CtJson == <<"a","p","p","l","i","c","a","t","i","o","n","/","j","s","o","n",";"," ","c","h","a","r","s","e","t","=","u","t","f","-","8">>
CtHtml == <<"t","e","x","t","/","h","t","m","l">>

ContentTypes == {CtJson, CtHtml}

StatusOk == 200

BodyJson == "{\"a\":1}"
BodyBroken == "{oops"
BodyEmpty == ""
BodyTexts == {BodyJson, BodyBroken, BodyEmpty}

\* The texts of BodyTexts that JSON.parse accepts.
JsonTexts == {BodyJson}

\* Values of response.body in an ApiCall.
NullBody == [kind |-> "null", of |-> ""]
RawBody(text) == [kind |-> "text", of |-> text]
ParsedBody(text) == [kind |-> "json", of |-> text]

(***************************************************************************)
(* The response handler's computation of response.body.                    *)
(* responseBody is the outcome of `await response.text().catch(() => null)`*)
(***************************************************************************)
Truthy(responseBody) == responseBody.kind = "text" /\ responseBody.of # ""

\* A plausible slip: a failed body read is treated as an error of the handler.
FinalizeThrowOnNull(contentType, responseBody) ==
  IF responseBody.kind = "null"
  THEN [thrown |-> TRUE, body |-> NullBody]
  ELSE IF includes(contentType, JsonMime) /\ Truthy(responseBody)
       THEN IF responseBody.of \in JsonTexts
            THEN [thrown |-> FALSE, body |-> ParsedBody(responseBody.of)]
            ELSE [thrown |-> TRUE, body |-> NullBody]
       ELSE [thrown |-> FALSE, body |-> responseBody]

\* thrown: JSON.parse raised, the catch block logs and nothing is pushed.
Finalize(contentType, responseBody) ==
  IF includes(contentType, JsonMime) /\ Truthy(responseBody)
  THEN IF responseBody.of \in JsonTexts
       THEN [thrown |-> FALSE, body |-> ParsedBody(responseBody.of)]
       ELSE [thrown |-> TRUE, body |-> NullBody]
  ELSE [thrown |-> FALSE, body |-> responseBody]

Correlators == 1..attached
Issued == 1..Len(net)

\* A plausible slip: the pending entry is looked up by the request's URL, not by
\* the request object.
PendingByUrl(c, r) ==
  {d \in requestMap[c] : \E q \in Issued : q = r /\ d.url = net[q].url}

\* requestMap.get(request)
Pending(c, r) == {d \in requestMap[c] : d.req = r}

\* A plausible slip: the pending map is keyed by the URL.
OnRequestByUrl(c, r, url) ==
  IF isApiCall(url)
  THEN [map |-> {d \in requestMap[c] : d.url # url} \cup {[req |-> r, url |-> url]},
        calls |-> apiCalls[c]]
  ELSE [map |-> requestMap[c], calls |-> apiCalls[c]]

\* page.on("request") of correlator c, for request r
OnRequest(c, r, url) ==
  IF isApiCall(url)
  THEN [map |-> (requestMap[c] \ Pending(c, r)) \cup {[req |-> r, url |-> url]},
        calls |-> apiCalls[c]]
  ELSE [map |-> requestMap[c], calls |-> apiCalls[c]]

(***************************************************************************)
(* captureNetworkTraffic: a fresh finalized list and pending map, and one  *)
(* more listener pair on the page.                                         *)
(***************************************************************************)
AttachEffect ==
  /\ attached' = attached + 1
  /\ requestMap' = Append(requestMap, {})
  /\ apiCalls' = Append(apiCalls, <<>>)
  /\ flushPc' = Append(flushPc, "idle")
  /\ flushed' = Append(flushed, <<>>)
  /\ UNCHANGED <<reading, net, flushCount, handled>>

\* The browser issues a request to one of `urls`: every attached request
\* listener runs.
RequestEvent(urls) ==
  /\ Len(net) < MaxReq
  /\ \E url \in urls :
       LET r == Len(net) + 1 IN
       /\ net' = Append(net, [st |-> "sent", url |-> url, observers |-> attached])
       /\ requestMap' = [c \in Correlators |-> OnRequest(c, r, url).map]
       /\ apiCalls' = [c \in Correlators |-> OnRequest(c, r, url).calls]
  /\ UNCHANGED <<attached, reading, flushPc, flushed, flushCount, handled>>
  /\ UNCHANGED flowVars

\* The response of a request arrives: every attached response listener runs up
\* to its `await response.text()`.
ResponseEvent(contentTypes, texts) ==
  /\ \E r \in Issued, contentType \in contentTypes, text \in texts :
       /\ net[r].st = "sent"
       /\ net' = [net EXCEPT ![r].st = "responded"]
       /\ reading' = reading \cup
            UNION {{[c |-> c, req |-> r, data |-> d,
                     resp |-> [status |-> StatusOk, contentType |-> contentType,
                               text |-> text]] : d \in Pending(c, r)} :
                   c \in {k \in Correlators : isApiCall(net[r].url)}}
  /\ UNCHANGED <<attached, requestMap, apiCalls, flushPc, flushed, flushCount,
                 handled>>
  /\ UNCHANGED flowVars

\* response.text() settles for one suspended handler: the rest of the handler.
BodyRead ==
  /\ \E h \in reading, readOk \in BOOLEAN :
       LET resp == h.resp
           responseBody == IF readOk THEN RawBody(resp.text) ELSE NullBody
           fin == Finalize(resp.contentType, responseBody)
           apiCall == [id |-> h.data.req, url |-> h.data.url,
                       response |-> [status |-> resp.status,
                                     contentType |-> resp.contentType,
                                     body |-> fin.body]]
       IN /\ apiCalls' = [apiCalls EXCEPT ![h.c] =
                            IF fin.thrown THEN @ ELSE Append(@, apiCall)]
          /\ requestMap' = [requestMap EXCEPT ![h.c] = @ \ Pending(h.c, h.req)]
          /\ reading' = reading \ {h}
          /\ handled' = handled \cup
               {[c |-> h.c, req |-> h.req, resp |-> resp, readOk |-> readOk]}
  /\ UNCHANGED <<attached, net, flushPc, flushed, flushCount>>
  /\ UNCHANGED flowVars

(***************************************************************************)
(* saveToFile of correlator c: ensureDir, then writeJson of the finalized  *)
(* list as it is when writeJson is called, then the list itself is         *)
(* returned.                                                               *)
(***************************************************************************)
\* A plausible slip: the pending requests are serialized as well.
SerializedWithPending(c) ==
  apiCalls[c] \o
    [i \in 1..(IF requestMap[c] = {} THEN 0 ELSE 1) |->
       LET d == CHOOSE x \in requestMap[c] : TRUE
       IN  [id |-> d.req, url |-> d.url,
            response |-> [status |-> 0, contentType |-> <<>>, body |-> NullBody]]]

Serialized(c) == apiCalls[c]

SaveCall(c) ==
  /\ flushPc[c] = "idle"
  /\ flushPc' = [flushPc EXCEPT ![c] = "ensureDir"]
  /\ flushCount' = flushCount + 1
  /\ UNCHANGED <<attached, requestMap, apiCalls, reading, net, flushed, handled>>

\* A plausible slip: the list is emptied once it is written.
SaveWriteAndReset(c) ==
  /\ flushPc[c] = "ensureDir"
  /\ flushPc' = [flushPc EXCEPT ![c] = "writing"]
  /\ flushed' = [flushed EXCEPT ![c] = Serialized(c)]
  /\ apiCalls' = [apiCalls EXCEPT ![c] = <<>>]
  /\ UNCHANGED <<attached, requestMap, reading, net, flushCount, handled>>

SaveWrite(c) ==
  /\ flushPc[c] = "ensureDir"
  /\ flushPc' = [flushPc EXCEPT ![c] = "writing"]
  /\ flushed' = [flushed EXCEPT ![c] = Serialized(c)]
  /\ UNCHANGED <<attached, requestMap, apiCalls, reading, net, flushCount, handled>>

SaveReturn(c) ==
  /\ flushPc[c] = "writing"
  /\ flushPc' = [flushPc EXCEPT ![c] = "idle"]
  /\ UNCHANGED <<attached, requestMap, apiCalls, reading, net, flushed, flushCount,
                 handled>>

\* ensureDir or writeJson rejects: saveToFile rejects and nothing was written.
SaveReject(c) ==
  /\ flushPc[c] = "ensureDir"
  /\ flushPc' = [flushPc EXCEPT ![c] = "idle"]
  /\ UNCHANGED <<attached, requestMap, apiCalls, reading, net, flushed, flushCount,
                 handled>>

\* The harness of the correlator: saveToFile called at any time, any number of
\* times (up to the bound).
HarnessSaveCall ==
  /\ flushCount < MaxFlush
  /\ \E c \in Correlators : SaveCall(c)
  /\ UNCHANGED flowVars

HarnessSaveWrite ==
  /\ \E c \in Correlators : SaveWrite(c)
  /\ UNCHANGED flowVars

HarnessSaveReturn ==
  /\ \E c \in Correlators : SaveReturn(c)
  /\ UNCHANGED flowVars

HarnessSaveReject ==
  /\ \E c \in Correlators : SaveReject(c)
  /\ UNCHANGED flowVars

\* No captureNetworkTraffic call was made yet.
NetInit ==
  /\ attached = 0
  /\ requestMap = <<>>
  /\ apiCalls = <<>>
  /\ reading = {}
  /\ net = <<>>
  /\ flushPc = <<>>
  /\ flushed = <<>>
  /\ flushCount = 0
  /\ handled = {}

\* The state captureNetworkTraffic returns in: one correlator, nothing observed.
NetAttached ==
  /\ attached = 1
  /\ requestMap = <<{}>>
  /\ apiCalls = << <<>> >>
  /\ reading = {}
  /\ net = <<>>
  /\ flushPc = <<"idle">>
  /\ flushed = << <<>> >>
  /\ flushCount = 0
  /\ handled = {}

\* analyzeDOMStructure, cssValuesMatch and runVisualTests were not called.
NotCalled == [called |-> FALSE]

DomIdle ==
  /\ dom = NotCalled
  /\ snapshot = NotCalled

CssIdle ==
  /\ value1 = NotCalled
  /\ value2 = NotCalled
  /\ verdict = NotCalled

TestIdle ==
  /\ originalPage = NotCalled
  /\ generatedPage = NotCalled
  /\ testPages = <<>>
  /\ testIdx = 0
  /\ results = NotCalled
  /\ testPc = "idle"
  /\ openPages = 0

\* dismissDialogs is not looked into.
DlgIdle ==
  /\ closeList = <<>>
  /\ buttons = <<>>
  /\ dismissPc = "idle"
  /\ dismissIdx = 0
  /\ clicks = <<>>
  /\ escapes = 0
  /\ swallowed = FALSE
  /\ passes = 0

EnvIdle == DomIdle /\ CssIdle /\ TestIdle /\ DlgIdle

\* The steps of the workflow, by the name of their capture.
StepOrder == <<"home", "create-project-menu", "blank-project-form",
               "project-view", "my-tasks">>

\* A site whose pages have none of the sections takeElementScreenshots looks
\* for.
BareSite == [p \in {StepOrder[i] : i \in 1..Len(StepOrder)} |-> {}]

\* A site on which the page captured as pageName has the sections of names.
SiteWith(pageName, names) == [BareSite EXCEPT ![pageName] = names]

\* scrapeAsana was not called.
ScrapeIdle ==
  /\ creds = TRUE
  /\ sections = BareSite
  /\ pc = "start"
  /\ idx = 1
  /\ capName = ""
  /\ pages = <<>>
  /\ disk = {}
  /\ docWrites = 0
  /\ docPages = <<>>
  /\ browser = "none"
  /\ closes = 0
  /\ outcome = "running"
  /\ failedStep = ""
  /\ activated = {}
  /\ exhausted = {}
  /\ matched = <<"", 0>>
  /\ dismissed = FALSE
  /\ clickedHidden = {}
  /\ tried = <<>>
  /\ shots = {}
  /\ loginUrl = <<>>
  /\ loginLog = <<>>
  /\ timedOut = {}

FlowIdle == EnvIdle /\ ScrapeIdle

(***************************************************************************)
(* The correlator, attached to a page, under a harness that calls          *)
(* saveToFile at any time and a browser that issues any traffic.           *)
(*   SpecNet: every kind of response, to an in-scope and an out-of-scope   *)
(*            URL;                                                         *)
(*   SpecUrl: every URL, with well-formed JSON responses.                  *)
(***************************************************************************)
UrlsNet == {UrlApi, UrlHome}

RequestNet == RequestEvent(UrlsNet)
ResponseNet == ResponseEvent(ContentTypes, BodyTexts)

InitNet == NetAttached /\ FlowIdle

NextNet ==
  \/ RequestNet
  \/ ResponseNet
  \/ BodyRead
  \/ HarnessSaveCall
  \/ HarnessSaveWrite
  \/ HarnessSaveReturn
  \/ HarnessSaveReject

SpecNet == InitNet /\ [][NextNet]_vars

RequestUrl == RequestEvent(Urls)
ResponseUrl == ResponseEvent({CtJson}, {BodyJson})

NextUrl ==
  \/ RequestUrl
  \/ ResponseUrl
  \/ BodyRead
  \/ HarnessSaveCall
  \/ HarnessSaveWrite
  \/ HarnessSaveReturn
  \/ HarnessSaveReject

SpecUrl == InitNet /\ [][NextUrl]_vars

(***************************************************************************)
(* Claims about the network correlator.                                    *)
(***************************************************************************)
\* The URLs of Urls that are in scope: an allow-list fragment and no deny-list
\* fragment, case ignored (listed by hand).
InScopeUrls == {UrlApi, UrlApiUpper}

FinalizedFor(c, r) == {i \in 1..Len(apiCalls[c]) : apiCalls[c][i].id = r}
FlushedFor(c, r) == {i \in 1..Len(flushed[c]) : flushed[c][i].id = r}

DeclaresJson(contentType) == includes(contentType, JsonMime)

\* The handler x passed a text to JSON.parse, which rejected it.
ParseFailed(x) ==
  /\ x.readOk
  /\ DeclaresJson(x.resp.contentType)
  /\ x.resp.text # ""
  /\ x.resp.text \notin JsonTexts

\* C6: for an in-scope request followed by its response, with the body read
\* completed, the next flush yields exactly one ApiCall for that request, whose
\* response.body is the parsed JSON value when the content type declares
\* application/json, and the raw body text otherwise.
C6_FlushYieldsOneCall ==
  [][\A c \in Correlators :
       (flushPc[c] = "ensureDir" /\ flushPc'[c] = "writing") =>
         \A x \in handled :
           (x.c = c /\ x.readOk) =>
             /\ Cardinality({i \in 1..Len(flushed'[c]) : flushed'[c][i].id = x.req}) = 1
             /\ \A i \in 1..Len(flushed'[c]) :
                  flushed'[c][i].id = x.req =>
                    IF DeclaresJson(x.resp.contentType)
                    THEN x.resp.text \in JsonTexts =>
                           flushed'[c][i].response.body = ParsedBody(x.resp.text)
                    ELSE flushed'[c][i].response.body = RawBody(x.resp.text)]_vars

\* C7: a request observed without a matching response never appears in the
\* finalized list nor in a flushed log, however often the list is flushed.
C7_UnansweredNeverFinalized ==
  \A c \in Correlators :
    /\ \A i \in 1..Len(apiCalls[c]) : net[apiCalls[c][i].id].st = "responded"
    /\ \A i \in 1..Len(flushed[c]) : net[flushed[c][i].id].st = "responded"

\* C7 witness: an in-scope request is pending without a response while the
\* list has been flushed twice.
C7_Witness ==
  /\ flushCount = 2
  /\ flushPc[1] = "idle"
  /\ \E r \in Issued :
       /\ net[r].st = "sent"
       /\ net[r].url \in InScopeUrls
       /\ Pending(1, r) # {}
  /\ \E r \in Issued : net[r].st = "responded" /\ FlushedFor(1, r) # {}

\* C8: a URL is in scope iff it holds an allow-list fragment and no deny-list
\* fragment, case ignored: every pending entry, finalized ApiCall and flushed
\* record has an in-scope URL (never /api/a.png), and every in-scope request
\* awaiting its response has a pending entry in each correlator that observed it.
C8_TwoSidedFilter ==
  \A c \in Correlators :
    /\ \A d \in requestMap[c] : d.url \in InScopeUrls
    /\ \A i \in 1..Len(apiCalls[c]) : apiCalls[c][i].url \in InScopeUrls
    /\ \A i \in 1..Len(flushed[c]) : flushed[c][i].url \in InScopeUrls
    /\ \A r \in Issued :
         (net[r].st = "sent" /\ c <= net[r].observers) =>
           (Pending(c, r) # {} <=> net[r].url \in InScopeUrls)

\* C8 witness: a request to /api/a.png was answered and is nowhere, while a
\* request to /API/T was finalized and flushed.
C8_Witness ==
  /\ \E r \in Issued : net[r].url = UrlApiPng /\ net[r].st = "responded"
  /\ \E r \in Issued :
       /\ net[r].url = UrlApiUpper
       /\ FinalizedFor(1, r) # {}
       /\ FlushedFor(1, r) # {}

\* C9: when reading the body of a matching response fails, exactly one ApiCall
\* for the request is appended, with a null body and with the response's status
\* and content type.
C9_ReadFailureRecorded ==
  \A x \in handled :
    ~ x.readOk =>
      /\ Cardinality(FinalizedFor(x.c, x.req)) = 1
      /\ \A i \in FinalizedFor(x.c, x.req) :
           apiCalls[x.c][i].response =
             [status |-> x.resp.status, contentType |-> x.resp.contentType,
              body |-> NullBody]

\* C9 witness: a handler whose body read failed has run to its end.
C9_Witness ==
  \E x \in handled : ~ x.readOk /\ FinalizedFor(x.c, x.req) # {}

\* C10: when a body declared as JSON fails to parse, the ApiCall is still
\* recorded in the finalized list, with a null body.
C10_ParseFailureRecorded ==
  \A x \in handled :
    ParseFailed(x) =>
      /\ Cardinality(FinalizedFor(x.c, x.req)) = 1
      /\ \A i \in FinalizedFor(x.c, x.req) :
           apiCalls[x.c][i].response.body = NullBody

(***************************************************************************)
(* The scraping workflow: scrapeAsana and the steps it awaits in turn.     *)
(* pc is the position of the one foreground sequence; every browser        *)
(* primitive either returns or rejects, as the environment decides.        *)
(***************************************************************************)
projectsSelectors ==
  <<"text=\"Projects\"", "[aria-label*=\"Projects\"]",
    "a:has-text(\"Projects\")", "button:has-text(\"Projects\")">>

createProjectSelectors ==
  <<"button:has-text(\"New project\")",
    "div[role=\"button\"]:has-text(\"New project\")",
    "[role=\"button\"]:has-text(\"New project\")",
    "text=\"New project\"",
    "[aria-label*=\"New project\"]",
    "button:has-text(\"Create project\")",
    "div[role=\"button\"]:has-text(\"Create project\")",
    "button:has(.PlusIcon)",
    "[aria-label*=\"Create\"]">>

blankProjectSelectors ==
  <<"div[role=\"button\"]:has-text(\"Blank project\")",
    "button:has-text(\"Blank project\")",
    ".ButtonPrimaryPresentation:has-text(\"Blank\")",
    "[role=\"button\"].ButtonThemeablePresentation:has-text(\"Blank\")">>

nameInputSelectors ==
  <<"input[placeholder*=\"Project name\"]", "input[placeholder*=\"Name\"]",
    "input[name*=\"name\"]", "input[type=\"text\"]">>

continueSelectors ==
  <<"button:has-text(\"Continue\")", "button[type=\"submit\"]",
    "button:has-text(\"Next\")">>

createSelectors ==
  <<"button:has-text(\"Create project\")", "button:has-text(\"Create Project\")",
    "button[type=\"submit\"]">>

myTasksSelectors ==
  <<"text=\"My tasks\"", "a:has-text(\"My tasks\")",
    "[aria-label*=\"My tasks\"]", "button:has-text(\"My tasks\")">>

\* What a selector finds on the page.
ElemStates == {"none", "hidden", "visible"}

\* A plausible slip: the log's name does not depend on the step.
ApiLogNameFixed(pageName) == <<"page", "-api-calls.json">>

\* Files: the name is kept in its parts.
ApiLogName(pageName) == <<pageName, "-api-calls.json">>
DebugShot(name) == <<"./", name>>
ScrapedDataPath == <<"scraped-data.json">>

PageNames == {pages[i].name : i \in 1..Len(pages)}

\* A plausible slip: the My-tasks step is left out of scrapeAsana.
AfterCaptureSkipTasks(pageName) ==
  CASE pageName = "home" -> "projects_try"
    [] pageName = "create-project-menu" -> "blank_prepare"
    [] pageName = "blank-project-form" -> "name_try"
    [] OTHER -> "write_doc"

\* A plausible slip: the menu step is run again after its capture.
AfterCaptureRepeatMenu(pageName) ==
  CASE pageName = "home" -> "projects_try"
    [] pageName = "create-project-menu" -> "projects_try"
    [] pageName = "blank-project-form" -> "name_try"
    [] pageName = "project-view" -> "mytasks_try"
    [] OTHER -> "write_doc"

\* The statement the capture of pageName returns to in scrapeAsana.
AfterCapture(pageName) ==
  CASE pageName = "home" -> "projects_try"
    [] pageName = "create-project-menu" -> "blank_prepare"
    [] pageName = "blank-project-form" -> "name_try"
    [] pageName = "project-view" -> "mytasks_try"
    [] OTHER -> "write_doc"

\* A plausible slip: unshift instead of push.
PushPageFront(ps, pageData) == <<pageData>> \o ps

\* scrapedData.pages.push(pageData)
PushPage(ps, pageData) == Append(ps, pageData)

\* A plausible slip: the error of a step is caught and the run goes on with
\* the last step.
ThrowAndResume(step) ==
  /\ pc' = "mytasks_try"
  /\ failedStep' = step
  /\ UNCHANGED <<envVars, browser, closes, outcome>>

\* An error leaves the try block of scrapeAsana: the finally block is next.
Throw(step) ==
  /\ pc' = "finally"
  /\ outcome' = "throwing"
  /\ failedStep' = step
  /\ UNCHANGED <<envVars, browser, closes>>

\* dismissDialogs swallows every failure of its lookups, clicks and keystroke.
DismissDialogs == dismissed' = TRUE

\* page.screenshot({ path, fullPage: true }): the file is written when the
\* call returns (shot), and the call was made either way.
Screenshot(name, shot) ==
  /\ disk' = IF shot THEN disk \cup {DebugShot(name)} ELSE disk
  /\ shots' = shots \cup {DebugShot(name)}

\* The attempts of the trigger resolution under way, with one more: strategy
\* `strategy` of `trigger` ran, and performed its click or fill or not.
Attempted(trigger, strategy, acted) ==
  Append(IF tried # <<>> /\ tried[1].trigger = trigger THEN tried ELSE <<>>,
         [trigger |-> trigger, strategy |-> strategy, acted |-> acted])

\* A strategy outside the selector loops ran without a click.
Missed(trigger, strategy) ==
  /\ tried' = Attempted(trigger, strategy, FALSE)
  /\ UNCHANGED <<idx, activated, exhausted, matched, dismissed, clickedHidden>>

\* A plausible slip: the strategy that matched is not recorded.
ActivateUnrecorded(trigger, strategy, elem, next) ==
  /\ activated' = activated \cup {trigger}
  /\ clickedHidden' = IF elem = "visible" THEN clickedHidden
                      ELSE clickedHidden \cup {trigger}
  /\ dismissed' = FALSE
  /\ idx' = 1
  /\ pc' = next
  /\ tried' = Attempted(trigger, strategy, TRUE)
  /\ UNCHANGED <<exhausted, matched>>

\* A click or fill was performed on the element strategy `strategy` located.
Activate(trigger, strategy, elem, next) ==
  /\ activated' = activated \cup {trigger}
  /\ matched' = <<trigger, strategy>>
  /\ clickedHidden' = IF elem = "visible" THEN clickedHidden
                      ELSE clickedHidden \cup {trigger}
  /\ dismissed' = FALSE
  /\ idx' = 1
  /\ pc' = next
  /\ tried' = Attempted(trigger, strategy, TRUE)
  /\ UNCHANGED exhausted

\* A plausible slip: the loop steps over the selector after a failed one.
NextStrategySkipping(trigger, selectors, offset, after) ==
  /\ idx' = IF idx + 1 < Len(selectors) THEN idx + 2 ELSE 1
  /\ pc' = IF idx + 1 < Len(selectors) THEN pc ELSE after
  /\ tried' = Attempted(trigger, offset + idx, FALSE)
  /\ UNCHANGED <<activated, exhausted, matched, dismissed, clickedHidden>>

\* The strategy at idx failed: the next one, or `after` when it was the last.
NextStrategy(trigger, selectors, offset, after) ==
  /\ idx' = IF idx < Len(selectors) THEN idx + 1 ELSE 1
  /\ pc' = IF idx < Len(selectors) THEN pc ELSE after
  /\ tried' = Attempted(trigger, offset + idx, FALSE)
  /\ UNCHANGED <<activated, exhausted, matched, dismissed, clickedHidden>>

\* Every strategy of the trigger failed.
Exhaust(trigger, next) ==
  /\ exhausted' = exhausted \cup {trigger}
  /\ pc' = next
  /\ UNCHANGED <<idx, activated, matched, dismissed, clickedHidden, tried>>

\* The selector loops of workflow.js, one strategy per step:
\*   try { await page.click(selector, {timeout}); clicked = true; break } catch {}
\*   try { if (await el.isVisible()) { await el.click(); break } } catch { continue }
\*   try { if (input && await input.isVisible()) { await input.fill(..); break } } catch {}
\* The strategy matches when the element is visible and the click or fill returns.
SelectorLoop(label, trigger, selectors, offset, next, after) ==
  /\ pc = label
  /\ \E elem \in ElemStates, actionOk \in BOOLEAN :
       IF elem = "visible" /\ actionOk
       THEN Activate(trigger, offset + idx, elem, next)
       ELSE NextStrategy(trigger, selectors, offset, after)
  /\ UNCHANGED <<runVars, outVars, netVars>>

\* An awaited primitive outside any try block of the step: returns or rejects.
Await(label, next, step) ==
  /\ pc = label
  /\ \E ok \in BOOLEAN :
       IF ok
       THEN pc' = next /\ UNCHANGED runVars
       ELSE Throw(step)
  /\ UNCHANGED <<outVars, trigVars, netVars>>

(***************************************************************************)
(* scrapeAsana up to the first step, and loginToAsana.                     *)
(***************************************************************************)
CheckCredentials ==
  /\ pc = "start"
  /\ IF creds
     THEN pc' = "launch" /\ UNCHANGED runVars
     ELSE /\ pc' = "end"
          /\ outcome' = "failed"
          /\ failedStep' = "credentials"
          /\ UNCHANGED <<envVars, browser, closes>>
  /\ UNCHANGED <<outVars, trigVars, netVars>>

\* createBrowser: chromium.launch, then browser.newContext, both before the
\* try block of scrapeAsana. When newContext rejects the browser was launched.
CreateBrowser ==
  /\ pc = "launch"
  /\ \E launched \in BOOLEAN, context \in BOOLEAN :
       /\ browser' = IF launched THEN "open" ELSE browser
       /\ IF launched /\ context
          THEN /\ pc' = "newPage"
               /\ UNCHANGED <<envVars, closes, outcome, failedStep>>
          ELSE /\ pc' = "end"
               /\ outcome' = "failed"
               /\ failedStep' = "createBrowser"
               /\ UNCHANGED <<envVars, closes>>
  /\ UNCHANGED <<outVars, trigVars, netVars>>

NewPage ==
  /\ pc = "newPage"
  /\ \E ok \in BOOLEAN :
       IF ok
       THEN pc' = "login_email" /\ UNCHANGED runVars
       ELSE /\ pc' = "end"
            /\ outcome' = "failed"
            /\ failedStep' = "newPage"
            /\ UNCHANGED <<envVars, browser, closes>>
  /\ UNCHANGED <<outVars, trigVars, netVars>>

\* The URLs the page can be at when loginToAsana waits for the URL: the login
\* page itself (the secret was rejected), the workspace home, and a page of
\* another site (a single-sign-on redirect).
LoginUrl ==
  <<"h","t","t","p","s",":","/","/","a","p","p",".","a","s","a","n","a",".","c","o","m","/","-","/","l","o","g","i","n">>
HomeUrl ==
  <<"h","t","t","p","s",":","/","/","a","p","p",".","a","s","a","n","a",".","c","o","m","/","1","/","2","/","h","o","m","e">>
SsoUrl ==
  <<"h","t","t","p","s",":","/","/","s","s","o",".","e","x","a","m","p","l","e",".","c","o","m","/","a","p","p">>
LandingUrls == {LoginUrl, HomeUrl, SsoUrl}

\* The literal part of the glob "**/app.asana.com/**".
GlobHost == <<"a","p","p",".","a","s","a","n","a",".","c","o","m","/">>

\* page.waitForURL("**/app.asana.com/**") is satisfied by a URL the glob
\* matches, the current one included: a leading "**/" stands for any number of
\* whole segments, the trailing "**" for any rest.
urlMatches(url) ==
  \E i \in 1..Len(url) :
    /\ i = 1 \/ url[i - 1] = "/"
    /\ i + Len(GlobHost) - 1 <= Len(url)
    /\ SubSeq(url, i, i + Len(GlobHost) - 1) = GlobHost

\* The awaited primitives of the two stages of loginToAsana, in order; "settle"
\* is a page.waitForTimeout delay.
LoginEmailOps ==
  <<"goto", "settle", "email_field", "fill_email", "settle", "submit_email">>
LoginPasswordOps ==
  <<"password_field", "settle", "fill_password", "settle", "submit_password">>

\* The waits among them: their rejection is a timeout.
LoginWaits == {"goto", "email_field", "password_field"}

\* What a sequence of primitives did to the login form: the delays left out.
FormOps(ops) == SelectSeq(ops, LAMBDA op : op # "settle")

\* A plausible slip: the rejected primitive is skipped and the rest still runs.
PerformedPastFailure(ops, n) ==
  SubSeq(ops, 1, n) \o SubSeq(ops, n + 2, Len(ops))

\* The primitives of ops that ran when the first n returned: the rejection of
\* the next one leaves the try block.
Performed(ops, n) == SubSeq(ops, 1, n)

\* One stage of loginToAsana's try block: the first n primitives return and the
\* next one, if any, rejects; on rejection the catch block runs.
LoginStage(label, ops, next) ==
  /\ pc = label
  /\ \E n \in 0..Len(ops) :
       /\ loginLog' = loginLog \o FormOps(Performed(ops, n))
       /\ timedOut' = IF n < Len(ops) /\ ops[n + 1] \in LoginWaits
                      THEN timedOut \cup {ops[n + 1]}
                      ELSE timedOut
       /\ pc' = IF n = Len(ops) THEN next ELSE "login_shot"
  /\ UNCHANGED <<capName, pages, disk, docWrites, docPages, shots, loginUrl>>
  /\ UNCHANGED <<runVars, trigVars, netVars>>

LoginEmail == LoginStage("login_email", LoginEmailOps, "login_password")
LoginPassword == LoginStage("login_password", LoginPasswordOps, "login_url")

\* waitForURL, waitForLoadState and the settle delay: the rejection of a wait
\* is a timeout, and the rejection of any of the three leaves the try block.
LoginWaitUrl ==
  /\ pc = "login_url"
  /\ \E url \in LandingUrls, loaded \in BOOLEAN, settled \in BOOLEAN :
       /\ loginUrl' = url
       /\ timedOut' = IF ~ urlMatches(url) THEN timedOut \cup {"url"}
                      ELSE IF ~ loaded THEN timedOut \cup {"load"}
                      ELSE timedOut
       /\ pc' = IF urlMatches(url) /\ loaded /\ settled THEN "login_dismiss"
                ELSE "login_shot"
  /\ UNCHANGED <<capName, pages, disk, docWrites, docPages, shots, loginLog>>
  /\ UNCHANGED <<runVars, trigVars, netVars>>

LoginDismiss ==
  /\ pc = "login_dismiss"
  /\ DismissDialogs
  /\ pc' = "home_scrape"
  /\ UNCHANGED <<idx, activated, exhausted, matched, clickedHidden, tried>>
  /\ UNCHANGED <<runVars, outVars, netVars>>

\* catch of loginToAsana: a debug screenshot (its failure ignored), then throw.
LoginFailed ==
  /\ pc = "login_shot"
  /\ \E shot \in BOOLEAN : Screenshot("debug-login-failed.png", shot)
  /\ Throw("login")
  /\ UNCHANGED <<capName, pages, docWrites, docPages, loginUrl, loginLog, timedOut>>
  /\ UNCHANGED <<trigVars, netVars>>

(***************************************************************************)
(* capturePageData(page, pageName, outputDir, scrapedData).                *)
(***************************************************************************)
\* The call of capturePageData(page, pageName, ...) in scrapeAsana.
StartCapture(pageName) ==
  /\ pc' = "cap_attach"
  /\ capName' = pageName
  /\ UNCHANGED <<pages, disk, docWrites, docPages>>

CaptureAttach ==
  /\ pc = "cap_attach"
  /\ AttachEffect
  /\ pc' = "cap_settle"
  /\ UNCHANGED <<runVars, outVars, trigVars>>

\* The selectors of takeElementScreenshots: the page sections that are looked
\* for, each with the name that goes into the file name.
elementSelectors ==
  <<[name |-> "header", selector |-> "header, [role=\"banner\"]"],
    [name |-> "sidebar", selector |-> "[role=\"navigation\"], aside, .sidebar"],
    [name |-> "main", selector |-> "main, [role=\"main\"]"],
    [name |-> "content", selector |-> ".content, .main-content"]>>

ElementNames == {elementSelectors[i].name : i \in 1..Len(elementSelectors)}

\* <outputDir>/screenshots/<pageName>-<part>.png
CaptureShot(pageName, part) == <<"screenshots/", pageName \o "-" \o part \o ".png">>

\* The position of capturePageData at the loop iteration for a section.
ElementLabel(name) == "cap_" \o name

\* The statements of capturePageData in program order: each awaited call is
\* one position, and so is each iteration of the loop of takeElementScreenshots.
CaptureLabels ==
  <<"cap_attach", "cap_settle", "cap_dom", "cap_interactive", "cap_full">>
  \o [i \in 1..Len(elementSelectors) |-> ElementLabel(elementSelectors[i].name)]
  \o <<"cap_save", "cap_ensure", "cap_return">>

\* await page.waitForTimeout(3000), outside any try block.
CaptureSettle == Await("cap_settle", "cap_dom", "capture")

\* await analyzeDOMStructure(page)
CaptureDom == Await("cap_dom", "cap_interactive", "capture")

\* await extractInteractiveElements(page)
CaptureInteractive == Await("cap_interactive", "cap_full", "capture")

\* takeScreenshot(page, pageName + "-full.png", outputDir): ensureDir, then
\* page.screenshot; a rejection of either leaves capturePageData.
CaptureFull ==
  /\ pc = "cap_full"
  /\ \E ensured \in BOOLEAN, shot \in BOOLEAN :
       IF ensured /\ shot
       THEN /\ pc' = ElementLabel(elementSelectors[1].name)
            /\ disk' = disk \cup {CaptureShot(capName, "full")}
            /\ UNCHANGED runVars
       ELSE /\ Throw("capture")
            /\ disk' = disk
  /\ UNCHANGED <<capName, pages, docWrites, docPages, histVars>>
  /\ UNCHANGED <<trigVars, netVars>>

\* One iteration of the loop of takeElementScreenshots: page.$(selector), and
\* for an element that is found ensureDir and element.screenshot, in a try
\* block whose catch only logs. The file is written when the section is on the
\* page and the three calls return; the loop goes on either way.
CaptureElement ==
  /\ \E i \in 1..Len(elementSelectors) :
       /\ pc = ElementLabel(elementSelectors[i].name)
       /\ \E looked \in BOOLEAN, ensured \in BOOLEAN, shot \in BOOLEAN :
            disk' = IF /\ looked
                       /\ elementSelectors[i].name \in sections[capName]
                       /\ ensured
                       /\ shot
                    THEN disk \cup {CaptureShot(capName, elementSelectors[i].name)}
                    ELSE disk
       /\ pc' = IF i < Len(elementSelectors)
                THEN ElementLabel(elementSelectors[i + 1].name)
                ELSE "cap_save"
  /\ UNCHANGED <<capName, pages, docWrites, docPages, histVars>>
  /\ UNCHANGED <<runVars, trigVars, netVars>>

CaptureSaveCall ==
  /\ pc = "cap_save"
  /\ SaveCall(attached)
  /\ pc' = "cap_ensure"
  /\ UNCHANGED <<runVars, outVars, trigVars>>

CaptureSaveWrite ==
  /\ pc = "cap_ensure"
  /\ SaveWrite(attached)
  /\ disk' = disk \cup {ApiLogName(capName)}
  /\ pc' = "cap_return"
  /\ UNCHANGED <<capName, pages, docWrites, docPages, histVars>>
  /\ UNCHANGED <<runVars, trigVars>>

CaptureSaveReject ==
  /\ pc = "cap_ensure"
  /\ SaveReject(attached)
  /\ Throw("capture")
  /\ UNCHANGED <<outVars, trigVars>>

\* saveToFile returns the live list; pageData is built and pushed.
CapturePush ==
  /\ pc = "cap_return"
  /\ SaveReturn(attached)
  /\ pages' = PushPage(pages, [name |-> capName,
                               apiCalls |-> Len(apiCalls[attached])])
  /\ pc' = AfterCapture(capName)
  /\ capName' = ""
  /\ UNCHANGED <<disk, docWrites, docPages, histVars>>
  /\ UNCHANGED <<runVars, trigVars>>

(***************************************************************************)
(* Step 1: the home page.                                                  *)
(***************************************************************************)
ScrapeHomePage ==
  /\ pc = "home_scrape"
  /\ \E ok \in BOOLEAN :
       IF ok
       THEN /\ DismissDialogs
            /\ StartCapture("home")
            /\ UNCHANGED <<runVars, histVars>>
       ELSE /\ Throw("scrapeHomePage")
            /\ UNCHANGED <<dismissed, outVars>>
  /\ UNCHANGED <<idx, activated, exhausted, matched, clickedHidden, tried>>
  /\ UNCHANGED netVars

(***************************************************************************)
(* Step 2: navigateToCreateProject, scrapeCreateProjectPage.               *)
(***************************************************************************)
ProjectsTry ==
  SelectorLoop("projects_try", "projects", projectsSelectors, 0,
               "projects_wait", "projects_none")

\* if (!clicked) throw new Error("Could not find Projects button")
ProjectsNotFound ==
  /\ pc = "projects_none"
  /\ exhausted' = exhausted \cup {"projects"}
  /\ Throw("navigateToCreateProject")
  /\ UNCHANGED <<idx, activated, matched, dismissed, clickedHidden, tried>>
  /\ UNCHANGED <<outVars, netVars>>

ProjectsWait == Await("projects_wait", "newProject_try", "navigateToCreateProject")

NewProjectTry ==
  SelectorLoop("newProject_try", "newProject", createProjectSelectors, 0,
               "newProject_wait", "newProject_scan")

\* page.evaluate: the first button-like element whose text holds "new project"
\* or "create project" is clicked, whether it is visible or not.
NewProjectScan ==
  /\ pc = "newProject_scan"
  /\ \E ok \in BOOLEAN, elem \in ElemStates :
       IF ~ ok
       THEN /\ Throw("navigateToCreateProject")
            /\ Missed("newProject", Len(createProjectSelectors) + 1)
       ELSE IF elem # "none"
            THEN /\ Activate("newProject", Len(createProjectSelectors) + 1, elem,
                             "newProject_wait")
                 /\ UNCHANGED runVars
            ELSE /\ pc' = "newProject_none"
                 /\ Missed("newProject", Len(createProjectSelectors) + 1)
                 /\ UNCHANGED runVars
  /\ UNCHANGED <<outVars, netVars>>

\* if (!clicked) { await page.screenshot(debug...); throw new Error(...) }
NewProjectNotFound ==
  /\ pc = "newProject_none"
  /\ \E shot \in BOOLEAN : Screenshot("debug-create-project-button.png", shot)
  /\ exhausted' = exhausted \cup {"newProject"}
  /\ Throw("navigateToCreateProject")
  /\ UNCHANGED <<idx, activated, matched, dismissed, clickedHidden, tried>>
  /\ UNCHANGED <<capName, pages, docWrites, docPages, loginUrl, loginLog, timedOut>>
  /\ UNCHANGED netVars

NewProjectWait == Await("newProject_wait", "scrape_menu", "navigateToCreateProject")

\* scrapeCreateProjectPage: the dismissDialogs call is commented out.
ScrapeCreateProjectPage ==
  /\ pc = "scrape_menu"
  /\ StartCapture("create-project-menu")
  /\ UNCHANGED <<histVars, runVars, trigVars, netVars>>

(***************************************************************************)
(* Step 3: selectBlankProject.                                             *)
(***************************************************************************)
\* The settle delay, the debug screenshot and the diagnostic evaluate.
BlankPrepare ==
  /\ pc = "blank_prepare"
  /\ \E waited \in BOOLEAN, shot \in BOOLEAN, ok \in BOOLEAN :
       IF waited
       THEN /\ Screenshot("debug-before-blank-click.png", shot)
            /\ pc' = IF shot /\ ok THEN "blank_text" ELSE "blank_catch"
       ELSE /\ pc' = "blank_catch"
            /\ UNCHANGED <<disk, shots>>
  /\ UNCHANGED <<capName, pages, docWrites, docPages, loginUrl, loginLog, timedOut>>
  /\ UNCHANGED <<runVars, trigVars, netVars>>

\* Strategy 1: waitForSelector(':text("Blank project")', visible), then click.
BlankText ==
  /\ pc = "blank_text"
  /\ \E elem \in ElemStates, actionOk \in BOOLEAN :
       IF elem = "visible" /\ actionOk
       THEN Activate("blankProject", 1, elem, "blank_form")
       ELSE /\ pc' = "blank_try"
            /\ Missed("blankProject", 1)
  /\ UNCHANGED <<runVars, outVars, netVars>>

\* Strategy 2: the class-based selectors.
BlankTry ==
  SelectorLoop("blank_try", "blankProject", blankProjectSelectors, 1,
               "blank_form", "blank_scan")

\* Strategy 3: page.evaluate clicks the first visible clickable element whose
\* text holds "Blank project".
BlankScan ==
  /\ pc = "blank_scan"
  /\ \E ok \in BOOLEAN, elem \in ElemStates :
       IF ~ ok
       THEN /\ pc' = "blank_catch"
            /\ Missed("blankProject", Len(blankProjectSelectors) + 2)
       ELSE IF elem = "visible"
            THEN Activate("blankProject", Len(blankProjectSelectors) + 2, elem,
                          "blank_form")
            ELSE /\ pc' = "blank_none"
                 /\ Missed("blankProject", Len(blankProjectSelectors) + 2)
  /\ UNCHANGED <<runVars, outVars, netVars>>

\* if (!clicked) { await page.screenshot(debug...); throw new Error(...) }
BlankNotFound ==
  /\ pc = "blank_none"
  /\ \E shot \in BOOLEAN : Screenshot("debug-blank-project-not-found.png", shot)
  /\ exhausted' = exhausted \cup {"blankProject"}
  /\ pc' = "blank_catch"
  /\ UNCHANGED <<idx, activated, matched, dismissed, clickedHidden, tried>>
  /\ UNCHANGED <<capName, pages, docWrites, docPages, loginUrl, loginLog, timedOut>>
  /\ UNCHANGED <<runVars, netVars>>

\* The settle delays and the wait for the form, whose timeout is swallowed;
\* then selectBlankProject returns and scrapeAsana calls capturePageData.
BlankForm ==
  /\ pc = "blank_form"
  /\ \E ok \in BOOLEAN, formSeen \in BOOLEAN :
       /\ timedOut' = IF formSeen THEN timedOut ELSE timedOut \cup {"form"}
       /\ IF ok
          THEN StartCapture("blank-project-form")
          ELSE /\ pc' = "blank_catch"
               /\ UNCHANGED <<capName, pages, disk, docWrites, docPages>>
  /\ UNCHANGED <<shots, loginUrl, loginLog>>
  /\ UNCHANGED <<runVars, trigVars, netVars>>

\* catch of selectBlankProject: a debug screenshot (its failure ignored), throw.
BlankFailed ==
  /\ pc = "blank_catch"
  /\ \E shot \in BOOLEAN : Screenshot("debug-blank-project.png", shot)
  /\ Throw("selectBlankProject")
  /\ UNCHANGED <<capName, pages, docWrites, docPages, loginUrl, loginLog, timedOut>>
  /\ UNCHANGED <<trigVars, netVars>>

(***************************************************************************)
(* Step 4: createNewProject, scrapeProjectPage.                            *)
(***************************************************************************)
NameTry ==
  SelectorLoop("name_try", "projectName", nameInputSelectors, 0,
               "name_wait", "name_none")

\* The loop over nameInputSelectors ended without a fill: nothing is checked.
NameNotFound ==
  /\ pc = "name_none"
  /\ Exhaust("projectName", "name_wait")
  /\ UNCHANGED <<runVars, outVars, netVars>>

NameWait == Await("name_wait", "continue_try", "createNewProject")

ContinueTry ==
  SelectorLoop("continue_try", "continue", continueSelectors, 0,
               "continue_wait", "continue_none")

ContinueNotFound ==
  /\ pc = "continue_none"
  /\ Exhaust("continue", "continue_wait")
  /\ UNCHANGED <<runVars, outVars, netVars>>

ContinueWait == Await("continue_wait", "create_try", "createNewProject")

CreateTry ==
  SelectorLoop("create_try", "createProject", createSelectors, 0,
               "create_wait", "create_none")

CreateNotFound ==
  /\ pc = "create_none"
  /\ Exhaust("createProject", "create_wait")
  /\ UNCHANGED <<runVars, outVars, netVars>>

\* await page.waitForTimeout(5000); await dismissDialogs(page)
CreateWait ==
  /\ pc = "create_wait"
  /\ \E ok \in BOOLEAN :
       IF ok
       THEN /\ DismissDialogs
            /\ pc' = "scrape_project"
            /\ UNCHANGED runVars
       ELSE /\ Throw("createNewProject")
            /\ UNCHANGED dismissed
  /\ UNCHANGED <<idx, activated, exhausted, matched, clickedHidden, tried>>
  /\ UNCHANGED <<outVars, netVars>>

ScrapeProjectPage ==
  /\ pc = "scrape_project"
  /\ DismissDialogs
  /\ StartCapture("project-view")
  /\ UNCHANGED histVars
  /\ UNCHANGED <<idx, activated, exhausted, matched, clickedHidden, tried>>
  /\ UNCHANGED <<runVars, netVars>>

(***************************************************************************)
(* Step 5: navigateToMyTasks, scrapeMyTasksPage.                           *)
(***************************************************************************)
MyTasksTry ==
  SelectorLoop("mytasks_try", "myTasks", myTasksSelectors, 0,
               "mytasks_wait", "mytasks_none")

MyTasksNotFound ==
  /\ pc = "mytasks_none"
  /\ Exhaust("myTasks", "mytasks_wait")
  /\ UNCHANGED <<runVars, outVars, netVars>>

MyTasksWait ==
  /\ pc = "mytasks_wait"
  /\ \E ok \in BOOLEAN :
       IF ok
       THEN /\ DismissDialogs
            /\ pc' = "scrape_tasks"
            /\ UNCHANGED runVars
       ELSE /\ Throw("navigateToMyTasks")
            /\ UNCHANGED dismissed
  /\ UNCHANGED <<idx, activated, exhausted, matched, clickedHidden, tried>>
  /\ UNCHANGED <<outVars, netVars>>

ScrapeMyTasksPage ==
  /\ pc = "scrape_tasks"
  /\ DismissDialogs
  /\ StartCapture("my-tasks")
  /\ UNCHANGED histVars
  /\ UNCHANGED <<idx, activated, exhausted, matched, clickedHidden, tried>>
  /\ UNCHANGED <<runVars, netVars>>

(***************************************************************************)
(* The end of scrapeAsana: the session document, and the finally block.    *)
(***************************************************************************)
\* await fs.writeJson(scrapedDataPath, scrapedData, { spaces: 2 })
SaveScrapedData ==
  /\ pc = "write_doc"
  /\ \E ok \in BOOLEAN :
       IF ok
       THEN /\ docWrites' = docWrites + 1
            /\ docPages' = pages
            /\ disk' = disk \cup {ScrapedDataPath}
            /\ pc' = "finally"
            /\ outcome' = "returning"
            /\ UNCHANGED <<envVars, browser, closes, failedStep>>
       ELSE /\ Throw("writeJson")
            /\ UNCHANGED <<docWrites, docPages, disk>>
  /\ UNCHANGED <<capName, pages, histVars>>
  /\ UNCHANGED <<trigVars, netVars>>

\* finally { await browser.close() }; then the return value or the error
\* reaches main, which exits with status 1 on an error.
BrowserClose ==
  /\ pc = "finally"
  /\ \E ok \in BOOLEAN :
       /\ browser' = IF ok THEN "closed" ELSE browser
       /\ outcome' = IF ok /\ outcome = "returning" THEN "done" ELSE "failed"
       /\ failedStep' = IF ~ ok /\ failedStep = "" THEN "browser.close"
                        ELSE failedStep
  /\ closes' = closes + 1
  /\ pc' = "end"
  /\ UNCHANGED envVars
  /\ UNCHANGED <<outVars, trigVars, netVars>>

\* The sites a run is checked on: no page has a section that is looked for, or
\* the home page has all of them, or the menu page has.
SiteLayouts ==
  {BareSite, SiteWith("home", ElementNames),
   SiteWith("create-project-menu", ElementNames)}

Init ==
  /\ NetInit
  /\ EnvIdle
  /\ creds \in BOOLEAN
  /\ sections \in SiteLayouts
  /\ pc = "start"
  /\ idx = 1
  /\ capName = ""
  /\ pages = <<>>
  /\ disk = {}
  /\ docWrites = 0
  /\ docPages = <<>>
  /\ browser = "none"
  /\ closes = 0
  /\ outcome = "running"
  /\ failedStep = ""
  /\ activated = {}
  /\ exhausted = {}
  /\ matched = <<"", 0>>
  /\ dismissed = FALSE
  /\ clickedHidden = {}
  /\ tried = <<>>
  /\ shots = {}
  /\ loginUrl = <<>>
  /\ loginLog = <<>>
  /\ timedOut = {}

Next ==
  \/ CheckCredentials
  \/ CreateBrowser
  \/ NewPage
  \/ LoginEmail
  \/ LoginPassword
  \/ LoginWaitUrl
  \/ LoginDismiss
  \/ LoginFailed
  \/ ScrapeHomePage
  \/ CaptureAttach
  \/ CaptureSettle
  \/ CaptureDom
  \/ CaptureInteractive
  \/ CaptureFull
  \/ CaptureElement
  \/ CaptureSaveCall
  \/ CaptureSaveWrite
  \/ CaptureSaveReject
  \/ CapturePush
  \/ ProjectsTry
  \/ ProjectsNotFound
  \/ ProjectsWait
  \/ NewProjectTry
  \/ NewProjectScan
  \/ NewProjectNotFound
  \/ NewProjectWait
  \/ ScrapeCreateProjectPage
  \/ BlankPrepare
  \/ BlankText
  \/ BlankTry
  \/ BlankScan
  \/ BlankNotFound
  \/ BlankForm
  \/ BlankFailed
  \/ NameTry
  \/ NameNotFound
  \/ NameWait
  \/ ContinueTry
  \/ ContinueNotFound
  \/ ContinueWait
  \/ CreateTry
  \/ CreateNotFound
  \/ CreateWait
  \/ ScrapeProjectPage
  \/ MyTasksTry
  \/ MyTasksNotFound
  \/ MyTasksWait
  \/ ScrapeMyTasksPage
  \/ SaveScrapedData
  \/ BrowserClose

Spec == Init /\ [][Next]_vars

(***************************************************************************)
(* Claims about the workflow.                                              *)
(***************************************************************************)
Names(ps) == [i \in 1..Len(ps) |-> ps[i].name]

IsPrefix(a, b) == Len(a) <= Len(b) /\ a = SubSeq(b, 1, Len(a))

\* C1: the pages list of the session document is always a prefix of
\* <<home, create-project-menu, blank-project-form, project-view, my-tasks>>:
\* records are only appended, in step order, and no step name occurs twice.
C1_PagesInStepOrder ==
  /\ [](/\ IsPrefix(Names(pages), StepOrder)
        /\ Cardinality(PageNames) = Len(pages))
  /\ [][\/ pages' = pages
        \/ /\ Len(pages') = Len(pages) + 1
           /\ SubSeq(pages', 1, Len(pages)) = pages]_vars

\* C1 witness: all five captures were appended.
C1_Witness == Names(pages) = StepOrder

\* C2: once login or a step has raised an error, no trigger is activated, no
\* PageCapture is appended, no step is entered again, and the run ends failed.
C2_FailureAbortsRun ==
  /\ [](failedStep # "" =>
          /\ pc \in {"finally", "end"}
          /\ pc = "end" => outcome = "failed")
  /\ [][failedStep # "" =>
          /\ activated' = activated
          /\ pages' = pages
          /\ docWrites' = docWrites
          /\ failedStep' = failedStep]_vars

\* C2 witness: the run ended failed in step 2, after the home capture.
C2_Witness ==
  /\ pc = "end"
  /\ outcome = "failed"
  /\ failedStep = "navigateToCreateProject"
  /\ Names(pages) = <<"home">>
  /\ browser = "closed"

\* The PageCapture of the state a trigger leads to.
ArrivalOf(trigger) ==
  CASE trigger \in {"projects", "newProject"} -> "create-project-menu"
    [] trigger = "blankProject" -> "blank-project-form"
    [] trigger \in {"projectName", "continue", "createProject"} -> "project-view"
    [] OTHER -> "my-tasks"

\* C3: there is no silent skip: when every strategy of a trigger failed, the
\* PageCapture of the arrival state is never appended.
C3_NoSilentSkip ==
  \A t \in exhausted : ArrivalOf(t) \notin PageNames

\* Scenario C: the run ended because selectBlankProject exhausted its strategies.
ScenarioC ==
  /\ pc = "end"
  /\ failedStep = "selectBlankProject"
  /\ "blankProject" \in exhausted

\* C4: in scenario C the run halted at step 3 and the PageCaptures of steps 1
\* and 2 (home, create-project-menu) are in the partial output left on disk:
\* the session document is on disk and holds the two records.
C4_CapturesOnDisk ==
  ScenarioC =>
    /\ Names(pages) = <<"home", "create-project-menu">>
    /\ <<"scraped-data.json">> \in disk
    /\ Names(docPages) = <<"home", "create-project-menu">>

\* The files a completed capture of pageName can leave: its API call log, its
\* full-page screenshot, and the screenshots of the sections on the page.
CaptureFiles(pageName) ==
  {<<pageName, "-api-calls.json">>, <<"screenshots/", pageName \o "-full.png">>}
  \cup {<<"screenshots/", pageName \o "-" \o name \o ".png">> :
          name \in sections[pageName]}

\* What scenario C does leave: the two PageCaptures are in the session document
\* in memory, which was never written; on disk are the API call log and the
\* full-page screenshot of steps 1 and 2, screenshots of sections of their
\* pages, and debug screenshots, and nothing else.
ScenarioCLeavesNoDocument ==
  ScenarioC =>
    /\ Names(pages) = <<"home", "create-project-menu">>
    /\ outcome = "failed"
    /\ "blankProject" \notin activated
    /\ \A pageName \in {"home", "create-project-menu"} :
         /\ <<pageName, "-api-calls.json">> \in disk
         /\ <<"screenshots/", pageName \o "-full.png">> \in disk
    /\ \A file \in disk :
         \/ file[1] = "./"
         \/ file \in CaptureFiles("home") \cup CaptureFiles("create-project-menu")
    /\ <<"scraped-data.json">> \notin disk
    /\ docWrites = 0
    /\ docPages = <<>>

\* Scenario C on a home page with every section, of which the header was
\* captured and the sidebar was not.
ScenarioCPartialSections ==
  /\ ScenarioC
  /\ <<"./", "debug-blank-project-not-found.png">> \in disk
  /\ <<"screenshots/", "home-header.png">> \in disk
  /\ <<"screenshots/", "home-sidebar.png">> \notin disk
  /\ "sidebar" \in sections["home"]

\* C5: the session document is written at most once, only after the my-tasks
\* PageCapture was appended (it then holds the five PageCaptures in step
\* order), and a run that ends Done has written it.
C5_DocumentWrittenOnceAtEnd ==
  /\ docWrites <= 1
  /\ (docWrites = 1 <=> <<"scraped-data.json">> \in disk)
  /\ docWrites = 1 =>
       /\ Names(docPages) = StepOrder
       /\ Names(pages) = StepOrder
       /\ pc \in {"finally", "end"}
  /\ docWrites = 0 => docPages = <<>>
  /\ outcome = "done" => docWrites = 1

\* C5 witness: the run ended Done with the document on disk.
C5_Witness ==
  /\ pc = "end"
  /\ outcome = "done"
  /\ docWrites = 1

(***************************************************************************)
(* The DOM analyzer: analyzeDOMStructure and its recursive extractElement. *)
(* A JavaScript value that is null or a string is a record: kind, of.      *)
(***************************************************************************)
JsNull == [kind |-> "null", of |-> <<>>]
JsString(chars) == [kind |-> "string", of |-> chars]

\* if (depth > 15 ...) return null
MaxDepth == 15

\* Bounds of the source trees.
MaxSpine == 18    \* elements on the longest root-to-leaf path

\* Node types of the DOM.
ELEMENT_NODE == 1
TEXT_NODE == 3
COMMENT_NODE == 8

Element(id, tagName, width, height, childNodes) ==
  [nodeType |-> ELEMENT_NODE, id |-> id, tagName |-> tagName,
   width |-> width, height |-> height, data |-> <<>>, childNodes |-> childNodes]

TextNode(data) ==
  [nodeType |-> TEXT_NODE, id |-> "", tagName |-> <<>>,
   width |-> 0, height |-> 0, data |-> data, childNodes |-> <<>>]

CommentNode(data) ==
  [nodeType |-> COMMENT_NODE, id |-> "", tagName |-> <<>>,
   width |-> 0, height |-> 0, data |-> data, childNodes |-> <<>>]

\* element.children: the child nodes that are elements.
children(element) ==
  SelectSeq(element.childNodes, LAMBDA n : n.nodeType = ELEMENT_NODE)

\* String.prototype.trim strips, and \s of a regular expression matches, the
\* white space and line terminators of ECMAScript: tab, line feed, vertical
\* tab, form feed, carriage return, space, U+00A0, U+1680, U+2000 to U+200A,
\* U+2028, U+2029, U+202F, U+205F, U+3000 and U+FEFF. The vertical tab and the
\* characters outside ASCII are denoted by their code points; those that a
\* string of this module can hold are also written as themselves.
WhiteSpace ==
  {" ", "\t", "\n", "\r", "\f", "", " ", " ", "﻿",
   "U+000B", "U+00A0", "U+1680", "U+FEFF",
   "U+2000", "U+2001", "U+2002", "U+2003", "U+2004", "U+2005",
   "U+2006", "U+2007", "U+2008", "U+2009", "U+200A",
   "U+2028", "U+2029", "U+202F", "U+205F", "U+3000"}

RECURSIVE trimStart(_)
trimStart(str) ==
  IF str # <<>> /\ Head(str) \in WhiteSpace THEN trimStart(Tail(str)) ELSE str

RECURSIVE trimEnd(_)
trimEnd(str) ==
  IF str # <<>> /\ str[Len(str)] \in WhiteSpace
  THEN trimEnd(SubSeq(str, 1, Len(str) - 1))
  ELSE str

trim(str) == trimEnd(trimStart(str))

\* Node.textContent of an element: the text of its descendants, in order.
RECURSIVE textContent(_)
RECURSIVE textContentOfAll(_)
textContentOfAll(nodes) ==
  IF nodes = <<>> THEN <<>>
  ELSE textContent(Head(nodes)) \o textContentOfAll(Tail(nodes))

textContent(node) ==
  CASE node.nodeType = TEXT_NODE -> node.data
    [] node.nodeType = COMMENT_NODE -> <<>>
    [] OTHER -> textContentOfAll(node.childNodes)

\* A plausible slip: the text is taken whenever there is no element child.
textFieldNoElementChild(element) ==
  IF children(element) = <<>>
  THEN JsString(trim(textContent(element)))
  ELSE JsNull

\* The textContent field of the node extractElement returns.
textField(element) ==
  IF Len(element.childNodes) = 1 /\ element.childNodes[1].nodeType = TEXT_NODE
  THEN JsString(trim(textContent(element)))
  ELSE JsNull

TagScript == <<"S","C","R","I","P","T">>
TagStyle == <<"S","T","Y","L","E">>
TagDiv == <<"D","I","V">>
TagSpan == <<"S","P","A","N">>

\* extractElement returns null or a node: here a sequence of no or one node.
\* id: element.id || null.
RECURSIVE extractElement(_, _)
RECURSIVE extractChildren(_, _)

\* A plausible slip: the guard lets one more level through.
extractElementOneDeeper(element, depth) ==
  IF depth > MaxDepth + 1 THEN <<>>
  ELSE << [tag |-> toLowerCase(element.tagName),
           id |-> IF element.id = "" THEN JsNull ELSE JsString(element.id),
           textContent |-> textField(element),
           position |-> [width |-> element.width, height |-> element.height],
           children |-> extractChildren(children(element), depth)] >>

extractElement(element, depth) ==
  IF depth > MaxDepth THEN <<>>
  ELSE << [tag |-> toLowerCase(element.tagName),
           id |-> IF element.id = "" THEN JsNull ELSE JsString(element.id),
           textContent |-> textField(element),
           position |-> [width |-> element.width, height |-> element.height],
           children |-> extractChildren(children(element), depth)] >>

\* A plausible slip: only the width of the child's box is tested.
extractChildrenWidthOnly(elements, depth) ==
  IF elements = <<>> THEN <<>>
  ELSE LET child == Head(elements)
           rest == extractChildren(Tail(elements), depth)
       IN  IF child.tagName = TagScript \/ child.tagName = TagStyle
           THEN rest
           ELSE IF child.width > 0
                THEN extractElement(child, depth + 1) \o rest
                ELSE rest

\* The loop over element.children, at an element of depth `depth`.
extractChildren(elements, depth) ==
  IF elements = <<>> THEN <<>>
  ELSE LET child == Head(elements)
           rest == extractChildren(Tail(elements), depth)
       IN  IF child.tagName = TagScript \/ child.tagName = TagStyle
           THEN rest
           ELSE IF child.width > 0 /\ child.height > 0
                THEN extractElement(child, depth + 1) \o rest
                ELSE rest

(***************************************************************************)
(* The source trees the analyzer is run on: a path of elements from the    *)
(* detected root, where one element may be special (an empty box, a script *)
(* or a style element), with or without side branches and text around.     *)
(***************************************************************************)
SpecialKinds == {"plain", "zeroWidth", "zeroHeight", "script", "style"}
LeafKinds == {"none", "text", "blank", "comment", "texts"}

LeafNodes(leaf) ==
  CASE leaf = "none" -> <<>>
    [] leaf = "text" -> << TextNode(<<" ", "o", "k", " ">>) >>
    [] leaf = "blank" -> << TextNode(<<" ">>) >>
    [] leaf = "comment" -> << CommentNode(<<"c">>) >>
    [] OTHER -> << TextNode(<<"a">>), TextNode(<<"b">>) >>

\* A side branch at depth d: a visible element with one text node.
Twig(d) ==
  Element("t" \o ToString(d), TagSpan, 4, 2, << TextNode(<<" ", "h", "i">>) >>)

RECURSIVE SpineFrom(_, _, _, _, _, _, _)
SpineFrom(d, len, k, kind, leaf, pad, twigs) ==
  LET special == (d = k)
      tagName == IF special /\ kind = "script" THEN TagScript
                 ELSE IF special /\ kind = "style" THEN TagStyle
                 ELSE TagDiv
      width == IF special /\ kind = "zeroWidth" THEN 0 ELSE 10
      height == IF special /\ kind = "zeroHeight" THEN 0 ELSE 10
      inner == d < len - 1
      childNodes ==
        (IF inner /\ pad THEN << TextNode(<<" ">>) >> ELSE <<>>)
        \o (IF inner /\ twigs THEN << Twig(d + 1) >> ELSE <<>>)
        \o (IF inner
            THEN << SpineFrom(d + 1, len, k, kind, leaf, pad, twigs) >>
            ELSE LeafNodes(leaf))
  IN  Element("e" \o ToString(d), tagName, width, height, childNodes)

\* Where the special element is: at the root, just below it, and around the
\* depth bound.
SpecialDepths == {0, 1, 2, MaxDepth, MaxDepth + 1, MaxSpine - 1}

SourceTrees ==
  { SpineFrom(0, len, k, kind, leaf, pad, twigs) :
      len \in 1..MaxSpine, k \in SpecialDepths, kind \in SpecialKinds,
      leaf \in LeafKinds, pad \in BOOLEAN, twigs \in BOOLEAN }

\* analyzeDOMStructure: structure = extractElement(appRoot)
AnalyzeDOMStructure ==
  /\ dom # NotCalled
  /\ snapshot = NotCalled
  /\ snapshot' = [called |-> TRUE, structure |-> extractElement(dom, 0)]
  /\ UNCHANGED <<dom, cssVars, testVars, scrapeVars>>

InitDom ==
  /\ NetInit
  /\ ScrapeIdle
  /\ CssIdle
  /\ TestIdle
  /\ DlgIdle
  /\ dom \in SourceTrees
  /\ snapshot = NotCalled

NextDom == AnalyzeDOMStructure

SpecDom == InitDom /\ [][NextDom]_vars

(***************************************************************************)
(* Claims about the DOM analyzer.                                          *)
(***************************************************************************)
\* The nodes of a snapshot, each with the id of its source element ("" when
\* the snapshot holds null) and its depth below the snapshot's root.
RECURSIVE SnapshotNodes(_, _)
SnapshotNodes(nodes, depth) ==
  UNION { {[id |-> IF nodes[i].id = JsNull THEN "" ELSE nodes[i].id.of,
            depth |-> depth, node |-> nodes[i]]}
          \cup SnapshotNodes(nodes[i].children, depth + 1) : i \in 1..Len(nodes) }

\* The elements of a source tree, each with its depth below the root and
\* whether an element above it has an empty box (anyAbove), and whether such
\* an element other than the root has (belowRootAbove).
RECURSIVE SourceElements(_, _, _, _)
SourceElements(elements, depth, anyAbove, belowRootAbove) ==
  UNION { LET el == elements[i]
              zero == el.width = 0 \/ el.height = 0
          IN  {[id |-> el.id, depth |-> depth, element |-> el, zero |-> zero,
                anyAbove |-> anyAbove, belowRootAbove |-> belowRootAbove]}
              \cup SourceElements(children(el), depth + 1, anyAbove \/ zero,
                                  belowRootAbove \/ (zero /\ depth > 0))
          : i \in 1..Len(elements) }

Analyzed == snapshot # NotCalled
SnapNodes == SnapshotNodes(snapshot.structure, 0)
SnapIds == {n.id : n \in SnapNodes}
SrcElements == SourceElements(<<dom>>, 0, FALSE, FALSE)

\* C11: no node of a snapshot is deeper than 15 below the detected root, and
\* every source element at depth 16 or more is absent from the snapshot.
C11_DepthBounded ==
  Analyzed =>
    /\ \A n \in SnapNodes : n.depth <= 15
    /\ \A e \in SrcElements : e.depth >= 16 => e.id \notin SnapIds
    /\ \A n \in SnapNodes : \E e \in SrcElements : e.id = n.id /\ e.depth = n.depth

\* C11 witness: a source tree of depth 17 whose snapshot reaches depth 15.
C11_Witness ==
  /\ Analyzed
  /\ \E e \in SrcElements : e.depth = 17
  /\ \E n \in SnapNodes : n.depth = 15

\* C12: the text field of a node is a string exactly when the source element
\* has one child node and that node is a text node (its trimmed text then);
\* with no, several, or one non-text child node the field is null.
C12_TextOnlyForSingleTextChild ==
  Analyzed =>
    \A n \in SnapNodes : \A e \in SrcElements :
      e.id = n.id =>
        LET nodes == e.element.childNodes
            singleText == Len(nodes) = 1 /\ nodes[1].nodeType = 3
        IN  /\ (n.node.textContent.kind = "string") <=> singleText
            /\ ~ singleText => n.node.textContent = JsNull
            /\ singleText => n.node.textContent.of = trim(nodes[1].data)

\* C12 witness: one snapshot holds a node with text, a node without child
\* nodes, and a node with several child nodes.
C12_Witness ==
  /\ Analyzed
  /\ \E n \in SnapNodes : n.node.textContent = JsString(<<"h", "i">>)
  /\ \E n \in SnapNodes : \E e \in SrcElements :
       e.id = n.id /\ e.element.childNodes = <<>> /\ n.node.textContent = JsNull
  /\ \E n \in SnapNodes : \E e \in SrcElements :
       e.id = n.id /\ Len(e.element.childNodes) > 1 /\ n.node.textContent = JsNull

\* What C13 says of the children of a snapshot.
ChildrenHaveBoxes ==
  \A n \in SnapNodes : \A e \in SrcElements :
    (e.id = n.id /\ n.depth > 0) =>
      /\ e.element.width > 0
      /\ e.element.height > 0
      /\ e.element.tagName \notin {TagScript, TagStyle}
      /\ n.node.tag \notin {<<"s","c","r","i","p","t">>, <<"s","t","y","l","e">>}

\* C13 as stated: every child in a snapshot had a positive box and is no
\* script or style element, and no descendant of any element with an empty
\* box is in the snapshot.
C13_NoZeroBoxSubtree ==
  Analyzed =>
    /\ ChildrenHaveBoxes
    /\ \A e \in SrcElements : (e.zero /\ e.depth > 0) => e.id \notin SnapIds
    /\ \A e \in SrcElements : e.anyAbove => e.id \notin SnapIds

\* C13 amended: the same for every element other than the detected root; the
\* root is extracted whatever its box is, and its children are judged by their
\* own boxes.
C13_NoZeroBoxSubtreeBelowRoot ==
  Analyzed =>
    /\ ChildrenHaveBoxes
    /\ \A e \in SrcElements : (e.zero /\ e.depth > 0) => e.id \notin SnapIds
    /\ \A e \in SrcElements : e.belowRootAbove => e.id \notin SnapIds
    /\ \A e \in SrcElements : e.depth = 0 => e.id \in SnapIds

\* C13 witness: an element below the root has an empty box and a descendant
\* with a positive box; neither is in the snapshot, a sibling branch is.
C13_Witness ==
  /\ Analyzed
  /\ \E e \in SrcElements :
       /\ e.belowRootAbove
       /\ ~ e.zero
       /\ e.depth <= 15
       /\ e.id \notin SnapIds
  /\ \E n \in SnapNodes : n.depth > 0
  /\ dom.width > 0 /\ dom.height > 0

(***************************************************************************)
(* cssValuesMatch and its normalize (visual-test.js).                      *)
(***************************************************************************)
JsUndefined == [kind |-> "undefined", of |-> <<>>]

\* !val for a value that is null, undefined or a string.
Falsy(val) == val.kind # "string" \/ val.of = <<>>

\* str.replace(/\s+/g, " "): every run of white space becomes one space.
RECURSIVE collapseSpaces(_)
collapseSpaces(str) ==
  IF str = <<>> THEN <<>>
  ELSE IF Head(str) \in WhiteSpace
       THEN <<" ">> \o collapseSpaces(trimStart(str))
       ELSE <<Head(str)>> \o collapseSpaces(Tail(str))

\* A plausible slip: a missing value is turned into its name.
normalizeNullAsText(val) ==
  IF val.kind = "null" THEN <<"n", "u", "l", "l">>
  ELSE IF Falsy(val) THEN <<>>
  ELSE trim(collapseSpaces(toLowerCase(val.of)))

\* const normalize = (val) => { if (!val) return ""; return val.toString()
\*   .toLowerCase().replace(/\s+/g, " ").trim(); }
normalize(val) ==
  IF Falsy(val) THEN <<>>
  ELSE trim(collapseSpaces(toLowerCase(val.of)))

\* A plausible slip: only the first value is normalized.
cssValuesMatchOneSided(v1, v2) ==
  normalize(v1) = (IF Falsy(v2) THEN <<>> ELSE v2.of)

cssValuesMatch(v1, v2) == normalize(v1) = normalize(v2)

\* The values cssValuesMatch is called with.
ValEmpty == JsString(<<>>)   \* ""
Val10px == JsString(<<"1", "0", "p", "x">>)   \* "10px"
Val11px == JsString(<<"1", "1", "p", "x">>)   \* "11px"
Val10pxLoud == JsString(<<" ", "1", "0", "P", "X", " ">>)   \* " 10PX "
ValRgbSpaced == JsString(<<"R", "g", "b", "(", " ", "1", " ", ",", " ", "2", " ", ",", " ", "3", " ", ")">>)   \* "Rgb( 1 , 2 , 3 )"
ValRgbTight == JsString(<<"r", "g", "b", "(", "1", ",", "2", ",", "3", ")">>)   \* "rgb(1,2,3)"
ValRgbWide == JsString(<<"R", "G", "B", "(", " ", " ", "1", " ", ",", " ", " ", "2", " ", ",", " ", " ", "3", " ", ")">>)   \* "RGB(  1 ,  2 ,  3 )"
ValBorder == JsString(<<"1", "p", "x", " ", "s", "o", "l", "i", "d">>)   \* "1px solid"
ValBorderTab == JsString(<<"1", "p", "x", "\t", " ", "s", "o", "l", "i", "d">>)   \* "1px\t solid"

CssValues ==
  {JsNull, JsUndefined, ValEmpty, Val10px, Val11px, Val10pxLoud, ValRgbSpaced,
   ValRgbTight, ValRgbWide, ValBorder, ValBorderTab}

CssValuesMatch ==
  /\ value1 # NotCalled
  /\ verdict = NotCalled
  /\ verdict' = [called |-> TRUE, matches |-> cssValuesMatch(value1, value2)]
  /\ UNCHANGED <<value1, value2, domVars, testVars, scrapeVars>>

InitCss ==
  /\ NetInit
  /\ ScrapeIdle
  /\ DomIdle
  /\ TestIdle
  /\ DlgIdle
  /\ value1 \in CssValues
  /\ value2 \in CssValues
  /\ verdict = NotCalled

NextCss == CssValuesMatch

SpecCss == InitCss /\ [][NextCss]_vars

(***************************************************************************)
(* Claims about cssValuesMatch.                                            *)
(***************************************************************************)
Compared == verdict # NotCalled

\* A value with its white space removed and its letters in lower case.
Squeezed(val) ==
  IF val.kind # "string" THEN <<>>
  ELSE SelectSeq(toLowerCase(val.of), LAMBDA ch : ch \notin WhiteSpace)

\* C15: values that differ only in white space and letter case match: two
\* values that are identical once white space and case are removed match, as
\* "Rgb( 1 , 2 , 3 )" and "rgb(1,2,3)" do.
C15_WhitespaceAndCaseIgnored ==
  Compared =>
    (Squeezed(value1) = Squeezed(value2) => verdict.matches)

\* C16: a missing value is normalized to the empty string (two missing values
\* match, a missing value matches ""), values that differ in a character that
\* is not white space do not match, and the relation is reflexive and
\* symmetric.
C16_MissingIsEmptyAndSymmetric ==
  Compared =>
    /\ (Falsy(value1) /\ Falsy(value2)) => verdict.matches
    /\ (Falsy(value1) /\ ~ Falsy(value2) /\ Squeezed(value2) # <<>>)
         => ~ verdict.matches
    /\ Squeezed(value1) # Squeezed(value2) => ~ verdict.matches
    /\ value1 = value2 => verdict.matches
    /\ verdict.matches = cssValuesMatch(value2, value1)

\* C16 witness: cssValuesMatch(null, "") returned true.
C16_Witness ==
  /\ Compared
  /\ value1 = JsNull
  /\ value2 = ValEmpty
  /\ verdict.matches

(***************************************************************************)
(* The visual tests: compareCSSProperties, comparePages, runVisualTests.   *)
(* A page is what navigating to it yields: whether it loaded, and for each *)
(* selector what page.$$ finds and the computed style of the first element.*)
(***************************************************************************)
selectors ==
  <<"button", "input", "a", "h1", "h2", "h3", ".card", ".header", ".sidebar", "nav">>

\* The keys of the object the evaluate callback returns, in Object.entries order.
styleProperties ==
  <<"color", "backgroundColor", "fontSize", "fontWeight", "padding", "margin",
    "borderRadius", "display">>

\* result.passed = matchPercentage >= 80
PassThreshold == 80

(***************************************************************************)
(* JavaScript numbers. The code divides two counts, multiplies by 100,     *)
(* compares with 80 and calls toFixed(2); each step is done on IEEE 754    *)
(* doubles. A finite double that is not negative is mant * 2^(exp - 52),   *)
(* where mant is 0 or has exactly 53 bits and is kept as five limbs of 13  *)
(* bits, the lowest first. Counts are below 2^17.                          *)
(***************************************************************************)
LimbBits == 13
LimbBase == 8192
MantissaBits == 53

RECURSIVE Pow2(_)
Pow2(k) == IF k = 0 THEN 1 ELSE 2 * Pow2(k - 1)

RECURSIVE BitLength(_)
BitLength(n) == IF n = 0 THEN 0 ELSE 1 + BitLength(n \div 2)

\* The limbs of a0 + a1 * 2^13 + ... + a4 * 2^52: carries move up, and the top
\* limb keeps whatever is left.
Limbs(a0, a1, a2, a3, a4) ==
  LET b1 == a1 + (a0 \div LimbBase)
      b2 == a2 + (b1 \div LimbBase)
      b3 == a3 + (b2 \div LimbBase)
      b4 == a4 + (b3 \div LimbBase)
  IN  <<a0 % LimbBase, b1 % LimbBase, b2 % LimbBase, b3 % LimbBase, b4>>

NaN == [kind |-> "nan"]
Infinity == [kind |-> "infinity"]
Finite(mant, exp) == [kind |-> "finite", mant |-> mant, exp |-> exp]
Zero == Finite(<<0, 0, 0, 0, 0>>, 0)

\* Round to nearest, ties to even: `mant` holds the 53 bits kept and `up` says
\* that what was dropped is more than half a unit, or half a unit when mant is
\* odd. Rounding up from 2^53 - 1 gives 2^52 with the next exponent.
Rounded(mant, up, exp) ==
  LET next == Limbs(mant[1] + 1, mant[2], mant[3], mant[4], mant[5])
  IN  IF ~ up THEN Finite(mant, exp)
      ELSE IF next[5] = 2 THEN Finite(<<0, 0, 0, 0, 1>>, exp + 1)
      ELSE Finite(next, exp)

\* num and den scaled by powers of two so that 1 <= num / den < 2, and the
\* exponent that was taken out.
RECURSIVE Scaled(_, _)
Scaled(num, den) ==
  IF num >= 2 * den
  THEN LET s == Scaled(num, 2 * den) IN [s EXCEPT !.exp = @ + 1]
  ELSE IF num < den
  THEN LET s == Scaled(2 * num, den) IN [s EXCEPT !.exp = @ - 1]
  ELSE [num |-> num, den |-> den, exp |-> 0]

\* num / den of two counts: 0 / 0 is NaN, n / 0 is Infinity, and otherwise the
\* double nearest to the quotient, by long division to 53 bits.
Ratio(num, den) ==
  IF den = 0 THEN (IF num = 0 THEN NaN ELSE Infinity)
  ELSE IF num = 0 THEN Zero
  ELSE LET s == Scaled(num, den)
           r0 == s.num - s.den
           l3 == (r0 * LimbBase) \div s.den
           r1 == (r0 * LimbBase) % s.den
           l2 == (r1 * LimbBase) \div s.den
           r2 == (r1 * LimbBase) % s.den
           l1 == (r2 * LimbBase) \div s.den
           r3 == (r2 * LimbBase) % s.den
           l0 == (r3 * LimbBase) \div s.den
           r4 == (r3 * LimbBase) % s.den
           up == 2 * r4 > s.den \/ (2 * r4 = s.den /\ l0 % 2 = 1)
       IN  Rounded(<<l0, l1, l2, l3, 1>>, up, s.exp)

\* x * factor for a positive integer factor below 2^13: the exact product,
\* rounded to 53 bits.
Times(x, factor) ==
  IF x.kind # "finite" \/ x.mant[5] = 0 THEN x
  ELSE LET p == Limbs(x.mant[1] * factor, x.mant[2] * factor, x.mant[3] * factor,
                      x.mant[4] * factor, x.mant[5] * factor)
           s == BitLength(p[5]) - 1
           low == Pow2(s)
           high == Pow2(LimbBits - s)
           kept == <<(p[1] \div low) + (p[2] % low) * high,
                     (p[2] \div low) + (p[3] % low) * high,
                     (p[3] \div low) + (p[4] % low) * high,
                     (p[4] \div low) + (p[5] % low) * high,
                     p[5] \div low>>
           dropped == p[1] % low
           up == /\ s > 0
                 /\ \/ 2 * dropped > low
                    \/ 2 * dropped = low /\ kept[1] % 2 = 1
       IN  Rounded(kept, up, x.exp + s)

\* The integer part of x * factor, for a finite x below 2^17 and a positive
\* integer factor below 2^9: the exact product, shifted right.
FloorTimes(x, factor) ==
  LET q == Limbs(x.mant[1] * factor, x.mant[2] * factor, x.mant[3] * factor,
                 x.mant[4] * factor, x.mant[5] * factor)
      shift == (MantissaBits - 1) - x.exp
      whole == shift \div LimbBits
      bits == shift % LimbBits
      part(i) == IF i - 1 < whole THEN 0
                 ELSE IF i - 1 = whole THEN q[i] \div Pow2(bits)
                 ELSE q[i] * Pow2(LimbBits * (i - 1 - whole) - bits)
  IN  part(1) + part(2) + part(3) + part(4) + part(5)

IsNaN(x) == x.kind = "nan"

\* x >= n for an integer n: a comparison with NaN is false.
AtLeast(x, n) ==
  CASE x.kind = "nan" -> FALSE
    [] x.kind = "infinity" -> TRUE
    [] OTHER -> FloorTimes(x, 1) >= n

\* (matches / (matches + mismatches)) * 100
Percentage(count, total) == Times(Ratio(count, total), 100)

DigitChars == <<"0", "1", "2", "3", "4", "5", "6", "7", "8", "9">>

RECURSIVE Digits(_)
Digits(n) ==
  IF n < 10 THEN <<DigitChars[n + 1]>>
  ELSE Digits(n \div 10) \o <<DigitChars[(n % 10) + 1]>>

\* Number.prototype.toFixed(2) of a number that is not negative: the integer n
\* for which n / 100 is nearest to the exact value of the double, the larger n
\* of two that are equally near, written with two decimals; "NaN" for NaN and
\* "Infinity" for Infinity.
toFixed2(x) ==
  CASE x.kind = "nan" -> <<"N", "a", "N">>
    [] x.kind = "infinity" -> <<"I", "n", "f", "i", "n", "i", "t", "y">>
    [] OTHER ->
       LET hundredths == (FloorTimes(x, 200) + 1) \div 2
       IN  Digits(hundredths \div 100) \o <<".">>
           \o <<DigitChars[((hundredths \div 10) % 10) + 1],
                DigitChars[(hundredths % 10) + 1]>>

\* A plausible slip: the last element that page.$$ returned is evaluated.
evaluateLastElement(found) ==
  IF found.more = <<>> THEN found.styles ELSE found.more[Len(found.more)]

\* elements[0].evaluate(el => getComputedStyle(el) ...): of the elements that
\* page.$$ returned, `styles` is the computed style of the first and `more`
\* holds those of the others.
evaluateFirstElement(found) == found.styles

\* The property loop of one selector: what is pushed on `matches` and on
\* `mismatches` for the properties in `properties`, in their order.
pushEntries(selector, originalStyles, generatedStyles, properties, matching) ==
  LET same == SelectSeq(properties, LAMBDA property : matching[property])
      differing == SelectSeq(properties, LAMBDA property : ~ matching[property])
  IN  [matches |->
         [i \in 1..Len(same) |->
            [selector |-> selector, property |-> same[i],
             value |-> originalStyles[same[i]]]],
       mismatches |->
         [i \in 1..Len(differing) |->
            [selector |-> selector, property |-> differing[i],
             original |-> originalStyles[differing[i]],
             generated |-> generatedStyles[differing[i]]]]]

compareStyles(selector, originalStyles, generatedStyles, properties) ==
  pushEntries(selector, originalStyles, generatedStyles, properties,
              [property \in {properties[i] : i \in 1..Len(properties)} |->
                 cssValuesMatch(originalStyles[property], generatedStyles[property])])

compareProperties(selector, original, generated, properties) ==
  compareStyles(selector, evaluateFirstElement(original),
                evaluateFirstElement(generated), properties)

\* A plausible slip: only the first property of the vector is compared.
compareSelectorFirstProperty(selector, original, generated) ==
  IF original.found = "throws" \/ generated.found = "throws"
  THEN [matches |-> <<>>, mismatches |-> <<>>]
  ELSE IF original.found = "none" \/ generated.found = "none"
  THEN [matches |-> <<>>, mismatches |-> <<>>]
  ELSE IF original.found = "detached" \/ generated.found = "detached"
  THEN [matches |-> <<>>, mismatches |-> <<>>]
  ELSE compareProperties(selector, original, generated, <<styleProperties[1]>>)

\* The body of the loop over selectors: what one selector adds to `matches`
\* and to `mismatches`. `original` and `generated` are what the selector
\* yields on each page: found is "none" (no element), "some", "throws"
\* (page.$$ rejects) or "detached" (the element is found, evaluate rejects).
\* Every rejection is caught and the selector is skipped.
compareSelector(selector, original, generated) ==
  IF original.found = "throws" \/ generated.found = "throws"
  THEN [matches |-> <<>>, mismatches |-> <<>>]
  ELSE IF original.found = "none" \/ generated.found = "none"
  THEN [matches |-> <<>>, mismatches |-> <<>>]
  ELSE IF original.found = "detached" \/ generated.found = "detached"
  THEN [matches |-> <<>>, mismatches |-> <<>>]
  ELSE compareProperties(selector, original, generated, styleProperties)

appendEntries(here, rest) ==
  [matches |-> here.matches \o rest.matches,
   mismatches |-> here.mismatches \o rest.mismatches]

\* The loop over selectors, from selector i on.
RECURSIVE compareSelectorsFrom(_, _, _)
compareSelectorsFrom(i, original, generated) ==
  IF i > Len(selectors) THEN [matches |-> <<>>, mismatches |-> <<>>]
  ELSE appendEntries(compareSelector(selectors[i], original.elements[selectors[i]],
                                     generated.elements[selectors[i]]),
                     compareSelectorsFrom(i + 1, original, generated))

compareCSSProperties(original, generated) == compareSelectorsFrom(1, original, generated)

\* error.message of a failed navigation or screenshot.
ErrorMessage == JsString(<<"T", "i", "m", "e", "o", "u", "t">>)

\* The rest of the try block of comparePages: the lists, the percentage, the
\* verdict and the text of the percentage.
scorePercentage(result, cssComparison, matchPercentage) ==
  [result EXCEPT !.cssMatches = cssComparison.matches,
                 !.cssMismatches = cssComparison.mismatches,
                 !.passed = AtLeast(matchPercentage, PassThreshold),
                 !.matchPercentage = JsString(toFixed2(matchPercentage))]

scoreComparison(result, cssComparison) ==
  scorePercentage(result, cssComparison,
                  Percentage(Len(cssComparison.matches),
                             Len(cssComparison.matches) + Len(cssComparison.mismatches)))

\* A plausible slip: the catch block does not record the error.
comparePagesSilent(pageName, original, generated, shotsOk) ==
  LET result == [page |-> pageName, passed |-> FALSE, differences |-> <<>>,
                 cssMatches |-> <<>>, cssMismatches |-> <<>>,
                 matchPercentage |-> JsUndefined, error |-> JsUndefined]
  IN  IF original.status # "loaded" \/ generated.status # "loaded" \/ ~ shotsOk
      THEN result
      ELSE scoreComparison(result, compareCSSProperties(original, generated))

\* comparePages, once both pages were opened: the result object it returns.
comparePages(pageName, original, generated, shotsOk) ==
  LET result == [page |-> pageName, passed |-> FALSE, differences |-> <<>>,
                 cssMatches |-> <<>>, cssMismatches |-> <<>>,
                 matchPercentage |-> JsUndefined, error |-> JsUndefined]
  IN  IF original.status # "loaded" \/ generated.status # "loaded" \/ ~ shotsOk
      THEN [result EXCEPT !.error = ErrorMessage]
      ELSE scoreComparison(result, compareCSSProperties(original, generated))

(***************************************************************************)
(* The pages the tests are run on. The first `present` selectors find an   *)
(* element; the first `varied` of them have the style vector `kind`, the   *)
(* others the base vector; `trouble` is what the last present selector     *)
(* does ("some" for none). Every other selector that finds an element      *)
(* finds a second one, styled differently from the first.                  *)
(***************************************************************************)
SelectorSet == {selectors[i] : i \in 1..Len(selectors)}
PropertySet == {styleProperties[i] : i \in 1..Len(styleProperties)}

SelectorIndex(selector) == CHOOSE i \in 1..Len(selectors) : selectors[i] = selector

BaseStyles ==
  [p \in PropertySet |->
     IF p \in {"color", "backgroundColor"} THEN ValRgbTight ELSE Val10px]

VariantKinds == {"loud", "twoOff", "allOff"}

StylesOf(kind) ==
  CASE kind = "loud" -> [BaseStyles EXCEPT !["fontSize"] = Val10pxLoud]
    [] kind = "twoOff" ->
         [BaseStyles EXCEPT !["fontSize"] = Val11px, !["padding"] = Val11px]
    [] kind = "allOff" -> [p \in PropertySet |-> ValBorder]
    [] OTHER -> BaseStyles

Troubles == {"some", "throws", "detached"}

\* The computed style of a second element a selector finds.
SecondStyles == [p \in PropertySet |-> Val11px]

PageOf(status, present, varied, kind, trouble) ==
  [status |-> status,
   elements |->
     [sel \in SelectorSet |->
        LET i == SelectorIndex(sel)
        IN  [found |-> IF i > present THEN "none"
                       ELSE IF i = present THEN trouble
                       ELSE "some",
             styles |-> IF i <= varied THEN StylesOf(kind) ELSE BaseStyles,
             more |-> IF i <= present /\ i % 2 = 1 THEN <<SecondStyles>>
                      ELSE <<>>]]]

\* A page whose navigation failed.
FailedPage == PageOf("failed", 0, 0, "same", "some")

\* How many selectors find an element on a page.
PresentCounts == {0, 1, 5, Len(selectors)}

OriginalPages ==
  {FailedPage} \cup
  { PageOf("loaded", present, 0, "same", trouble) :
      present \in PresentCounts, trouble \in Troubles }

GeneratedPages ==
  {FailedPage} \cup
  { PageOf("loaded", pv[1], pv[2], kind, trouble) :
      pv \in {x \in PresentCounts \X (0..Len(selectors)) : x[2] <= x[1]},
      kind \in VariantKinds, trouble \in Troubles }

\* The pages of a batch: few, one of each outcome.
BatchOriginals == {FailedPage, PageOf("loaded", Len(selectors), 0, "same", "some")}

BatchGenerated ==
  {FailedPage,
   PageOf("loaded", 1, 0, "same", "some"),
   PageOf("loaded", 1, 1, "allOff", "some")}

\* Bounds of a batch.
MaxPages == 3     \* page identifiers in the `pages` argument

PageIds == {"home", "projects", "tasks"}

TestLists == UNION {[1..n -> PageIds] : n \in 0..MaxPages}

JsNumber(chars) == [kind |-> "number", of |-> chars]

\* const results = { passed: 0, failed: 0, tests: [], accuracy: 0 }
NewResults == [passed |-> 0, failed |-> 0, tests |-> <<>>, accuracy |-> JsNumber(<<"0">>)]

\* chromium.launch and browser.newContext, before the try block.
LaunchTests ==
  /\ testPc = "launch"
  /\ \E ok \in BOOLEAN : testPc' = IF ok THEN "loop" ELSE "failed"
  /\ UNCHANGED <<originalPage, generatedPage, testPages, testIdx, results, openPages>>
  /\ UNCHANGED <<domVars, cssVars, scrapeVars>>

\* A plausible slip: the pages are closed at the end of the try block, so a
\* comparison that caught an error returns with its pages open.
closeInTry(result, closed) ==
  IF result.error # JsUndefined
  THEN [open |-> 2, returned |-> TRUE]
  ELSE [open |-> 2 - closed, returned |-> closed = 2]

\* finally { await originalPage.close(); await generatedPage.close(); } of
\* comparePages, whatever the try block did: `closed` of the two calls return,
\* and the first that rejects takes the error out of comparePages.
finallyClose(result, closed) == [open |-> 2 - closed, returned |-> closed = 2]

\* One round of the for loop of runVisualTests, up to the try block of
\* comparePages: context.newPage, twice, outside the try block; `opened` of
\* the two calls return, and a rejection leaves runVisualTests.
TestOpen(originals, generateds) ==
  /\ testPc = "loop"
  /\ testIdx <= Len(testPages)
  /\ \E opened \in 0..2 :
       /\ openPages' = openPages + opened
       /\ IF opened < 2
          THEN /\ testPc' = "failed"
               /\ UNCHANGED <<originalPage, generatedPage>>
          ELSE /\ testPc' = "comparing"
               /\ \E original \in originals, generated \in generateds :
                    /\ originalPage' = original
                    /\ generatedPage' = generated
  /\ UNCHANGED <<testPages, testIdx, results>>
  /\ UNCHANGED <<domVars, cssVars, scrapeVars>>

\* The rest of the round: the try, catch and finally blocks of comparePages,
\* and the counting of its result in runVisualTests.
TestCompare ==
  /\ testPc = "comparing"
  /\ \E shotsOk \in BOOLEAN, closed \in 0..2 :
       LET pageTest == comparePages(testPages[testIdx], originalPage,
                                    generatedPage, shotsOk)
           after == finallyClose(pageTest, closed)
       IN  /\ openPages' = openPages - 2 + after.open
           /\ IF after.returned
              THEN /\ results' =
                        [results EXCEPT
                           !.tests = Append(@, pageTest),
                           !.passed = IF pageTest.passed THEN @ + 1 ELSE @,
                           !.failed = IF pageTest.passed THEN @ ELSE @ + 1]
                   /\ testIdx' = testIdx + 1
                   /\ testPc' = "loop"
              ELSE /\ testPc' = "failed"
                   /\ UNCHANGED <<testIdx, results>>
  /\ UNCHANGED <<originalPage, generatedPage, testPages>>
  /\ UNCHANGED <<domVars, cssVars, scrapeVars>>

\* After the loop: the accuracy, and the results file.
FinishTests ==
  /\ testPc = "loop"
  /\ testIdx > Len(testPages)
  /\ results' = [results EXCEPT !.accuracy =
                   JsString(toFixed2(Percentage(results.passed,
                                                results.passed + results.failed)))]
  /\ \E saved \in BOOLEAN : testPc' = IF saved THEN "done" ELSE "failed"
  /\ UNCHANGED <<originalPage, generatedPage, testPages, testIdx, openPages>>
  /\ UNCHANGED <<domVars, cssVars, scrapeVars>>

\* One comparison, of the pages the two servers serve.
TestLoaded == TestOpen({originalPage}, {generatedPage})

InitCompare ==
  /\ NetInit
  /\ ScrapeIdle
  /\ DomIdle
  /\ CssIdle
  /\ DlgIdle
  /\ originalPage \in OriginalPages
  /\ generatedPage \in GeneratedPages
  /\ testPages \in {<<"home">>}
  /\ testIdx = 1
  /\ results = NewResults
  /\ testPc = "loop"
  /\ openPages = 0

NextCompare ==
  \/ TestLoaded
  \/ TestCompare
  \/ FinishTests

SpecCompare == InitCompare /\ [][NextCompare]_vars

\* A batch, over any pages.
TestAny == TestOpen(BatchOriginals, BatchGenerated)

InitTests ==
  /\ NetInit
  /\ ScrapeIdle
  /\ DomIdle
  /\ CssIdle
  /\ DlgIdle
  /\ originalPage = NotCalled
  /\ generatedPage = NotCalled
  /\ testPages \in TestLists
  /\ testIdx = 1
  /\ results = NewResults
  /\ testPc = "launch"
  /\ openPages = 0

NextTests ==
  \/ LaunchTests
  \/ TestAny
  \/ TestCompare
  \/ FinishTests

SpecTests == InitTests /\ [][NextTests]_vars

(***************************************************************************)
(* Claims about the visual tests.                                          *)
(***************************************************************************)
\* The text of a number of hundredths, with two decimals.
TwoDecimals(hundredths) ==
  Digits(hundredths \div 100) \o <<".">>
  \o <<DigitChars[((hundredths \div 10) % 10) + 1], DigitChars[(hundredths % 10) + 1]>>

\* text is count / total * 100 written with two decimals: the text of a number
\* of hundredths that is within half a hundredth of the ratio.
IsRatioWithTwoDecimals(text, count, total) ==
  /\ total > 0
  /\ \E h \in 0..10000 :
       /\ text = TwoDecimals(h)
       /\ 2 * (h * total - 10000 * count) <= total
       /\ 2 * (10000 * count - h * total) <= total

\* C14: in every comparison that completed without a load error, passed is
\* true exactly when matches / (matches + mismatches) * 100 is at least 80, and
\* matchPercentage is that ratio written with two decimals.
C14_PassedIffEightyPercent ==
  \A i \in 1..Len(results.tests) :
    LET t == results.tests[i]
        count == Len(t.cssMatches)
        total == Len(t.cssMatches) + Len(t.cssMismatches)
    IN  t.error = JsUndefined =>
          /\ t.passed \in BOOLEAN
          /\ t.passed <=> (total > 0 /\ count * 100 >= 80 * total)
          /\ t.matchPercentage.kind = "string"
          /\ IsRatioWithTwoDecimals(t.matchPercentage.of, count, total)

\* One comparison was made, of originalPage and generatedPage, without error.
ComparedPages ==
  /\ Len(results.tests) = 1
  /\ results.tests[1].error = JsUndefined

Mirrored(entry) ==
  [selector |-> entry.selector, property |-> entry.property,
   original |-> entry.generated, generated |-> entry.original]

\* C17: with the two sides swapped, the comparison has as many matches and as
\* many mismatches, the same percentage and the same passed flag; its mismatch
\* entries are those of the comparison made, original and generated swapped.
C17_ScoreSymmetric ==
  ComparedPages =>
    LET made == results.tests[1]
        swapped == comparePages(made.page, generatedPage, originalPage, TRUE)
    IN  /\ swapped.error = JsUndefined
        /\ Len(swapped.cssMatches) = Len(made.cssMatches)
        /\ Len(swapped.cssMismatches) = Len(made.cssMismatches)
        /\ swapped.matchPercentage = made.matchPercentage
        /\ swapped.passed = made.passed
        /\ swapped.cssMismatches =
             [i \in 1..Len(made.cssMismatches) |-> Mirrored(made.cssMismatches[i])]

\* C17 witness: a comparison of two different pages with matches, mismatches,
\* and a selector only one page has.
C17_Witness ==
  /\ ComparedPages
  /\ results.tests[1].cssMatches # <<>>
  /\ results.tests[1].cssMismatches # <<>>
  /\ \E sel \in SelectorSet :
       /\ originalPage.elements[sel].found = "some"
       /\ generatedPage.elements[sel].found = "none"

\* Scenario B: every selector finds an element on both pages and every
\* property value of the one matches that of the other.
ScenarioB ==
  /\ ComparedPages
  /\ \A sel \in SelectorSet :
       /\ originalPage.elements[sel].found = "some"
       /\ generatedPage.elements[sel].found = "some"
       /\ \A p \in PropertySet :
            cssValuesMatch(originalPage.elements[sel].styles[p],
                           generatedPage.elements[sel].styles[p])

ScenarioBOutcome ==
  /\ results.tests[1].passed
  /\ results.tests[1].matchPercentage = JsString(<<"1", "0", "0", ".", "0", "0">>)
  /\ results.tests[1].cssMismatches = <<>>

\* C18 as stated: in scenario B the comparison passes with "100.00", without
\* mismatches, and with one match entry per selector and property of a vector
\* of nine properties.
C18_AllMatchNineProperties ==
  ScenarioB =>
    /\ ScenarioBOutcome
    /\ Len(results.tests[1].cssMatches) = 9 * Len(selectors)

\* C18 amended: the same, with one match entry per selector and property of
\* the vector of eight properties (color, backgroundColor, fontSize,
\* fontWeight, padding, margin, borderRadius, display).
C18_AllMatchEightProperties ==
  ScenarioB =>
    /\ ScenarioBOutcome
    /\ Len(results.tests[1].cssMatches) = 8 * Len(selectors)
    /\ LET made == results.tests[1].cssMatches
       IN  {<<made[i].selector, made[i].property>> : i \in 1..Len(made)}
             = SelectorSet \X PropertySet

\* C18 witness: scenario B, with a generated value that differs in case.
C18_Witness ==
  /\ ScenarioB
  /\ generatedPage # originalPage

\* C19: a page that fails to load ends its own comparison only: the result
\* has an error field and passed = false, the batch goes on, and at the end
\* tests holds one result per requested page, in request order, with
\* passed + failed equal to the number of pages.
C19_LoadFailureIsPerPage ==
  /\ Len(results.tests) <= Len(testPages)
  /\ \A i \in 1..Len(results.tests) :
       /\ results.tests[i].page = testPages[i]
       /\ results.tests[i].error # JsUndefined => ~ results.tests[i].passed
  /\ results.passed + results.failed = Len(results.tests)
  /\ results.passed = Cardinality({i \in 1..Len(results.tests) : results.tests[i].passed})
  /\ (testPc = "loop" /\ testIdx > 1 /\
      (originalPage.status = "failed" \/ generatedPage.status = "failed")) =>
       /\ results.tests[testIdx - 1].error.kind = "string"
       /\ ~ results.tests[testIdx - 1].passed
  /\ testPc = "done" =>
       /\ Len(results.tests) = Len(testPages)
       /\ results.passed + results.failed = Len(testPages)

\* C19 witness: a batch of three pages ended; the first page failed to load,
\* a later one passed.
C19_Witness ==
  /\ testPc = "done"
  /\ Len(testPages) = 3
  /\ results.tests[1].error # JsUndefined
  /\ results.tests[3].passed
  /\ results.failed >= 1

(***************************************************************************)
(* Claims about trigger resolution.                                        *)
(***************************************************************************)
\* The scan of navigateToCreateProject, tried after the last selector.
ScanStrategy == <<"newProject", Len(createProjectSelectors) + 1>>

\* C20: when every selector for the New-project button failed and the scan
\* finds an element, the element is clicked, the scan is recorded as the
\* strategy that matched, no failure is raised and no debug screenshot is taken;
\* the step goes on to its wait and the capture.
C20_ScanFallbackResolves ==
  /\ [][(pc = "newProject_scan" /\ pc' = "newProject_wait") =>
          /\ matched' = ScanStrategy
          /\ "newProject" \in activated'
          /\ exhausted' = exhausted
          /\ failedStep' = ""
          /\ outcome' = "running"
          /\ disk' = disk]_vars
  /\ [](matched = ScanStrategy =>
          /\ "newProject" \in activated
          /\ "newProject" \notin exhausted
          /\ <<"./", "debug-create-project-button.png">> \notin disk)
  /\ [](pc = "newProject_scan" => idx = 1 /\ "newProject" \notin activated)

\* C20 witness: the scan matched and the create-project-menu capture was made.
C20_Witness ==
  /\ matched = ScanStrategy
  /\ "create-project-menu" \in PageNames
  /\ failedStep = ""

\* The triggers whose exhaustion ends the run, and for each the debug paths
\* of the step that resolves it.
FatalTriggers == {"projects", "newProject", "blankProject"}

DiagnosticsOf(trigger) ==
  IF trigger = "blankProject"
  THEN {<<"./", "debug-blank-project-not-found.png">>,
        <<"./", "debug-blank-project.png">>}
  ELSE {<<"./", "debug-create-project-button.png">>}

\* C21: whenever the resolution of the Projects entry, of the New-project
\* button or of the Blank-project option exhausted its strategies and the
\* failure was raised, a diagnostic screenshot was asked for at the fixed debug
\* path of that resolution.
C21_ExhaustionLeavesScreenshot ==
  \A t \in exhausted \cap FatalTriggers :
    failedStep # "" => shots \cap DiagnosticsOf(t) # {}

\* The URLs of LandingUrls whose path starts with an authenticated root
\* segment (listed by hand).
AuthenticatedUrls == {HomeUrl}

LoginLabels == {"start", "launch", "newPage", "login_email", "login_password",
                "login_url", "login_shot"}

\* C22: login succeeds only if the page reached an authenticated URL after the
\* secret was submitted; when the page is still at the login URL, login raises
\* its failure after asking for the diagnostic screenshot, and no workflow step
\* is captured.
C22_LoginNeedsAuthenticatedUrl ==
  /\ (loginUrl # <<>> /\ pc \notin LoginLabels /\ failedStep # "login") =>
       loginUrl \in AuthenticatedUrls
  /\ loginUrl = LoginUrl =>
       /\ pc \in {"login_shot", "finally", "end"}
       /\ pages = <<>>
       /\ pc # "login_shot" =>
            /\ failedStep = "login"
            /\ <<"./", "debug-login-failed.png">> \in shots

\* The position of a selector loop, with the trigger it resolves and the
\* number of strategies that precede the loop.
LoopOf(label) ==
  CASE label = "projects_try" -> [trigger |-> "projects", offset |-> 0]
    [] label = "newProject_try" -> [trigger |-> "newProject", offset |-> 0]
    [] label = "blank_try" -> [trigger |-> "blankProject", offset |-> 1]
    [] label = "name_try" -> [trigger |-> "projectName", offset |-> 0]
    [] label = "continue_try" -> [trigger |-> "continue", offset |-> 0]
    [] label = "create_try" -> [trigger |-> "createProject", offset |-> 0]
    [] OTHER -> [trigger |-> "myTasks", offset |-> 0]

LoopLabels == {"projects_try", "newProject_try", "blank_try", "name_try",
               "continue_try", "create_try", "mytasks_try"}

\* C24: within one trigger resolution the strategies are attempted in
\* declaration order, each one only after the one before it failed; the click
\* or fill is performed at most once, by the last strategy attempted, and once
\* it is performed no further strategy (the scan included) is attempted.
C24_StrategiesInOrder ==
  /\ \A i \in 1..Len(tried) :
       /\ tried[i].trigger = tried[1].trigger
       /\ tried[i].strategy = i
       /\ tried[i].acted => i = Len(tried)
  /\ \A t \in activated :
       (tried # <<>> /\ tried[1].trigger = t) => tried[Len(tried)].acted
  /\ (pc \in LoopLabels /\ tried # <<>> /\ tried[1].trigger = LoopOf(pc).trigger) =>
       /\ LoopOf(pc).offset + idx = Len(tried) + 1
       /\ LoopOf(pc).trigger \notin activated
  /\ pc \in {"newProject_scan", "blank_scan"} =>
       /\ ~ tried[Len(tried)].acted
       /\ tried[1].trigger \notin activated

\* C24 witness: the Blank-project option was clicked by the third strategy,
\* after the text strategy and the first class selector failed, and the form
\* was captured.
C24_Witness ==
  /\ Len(tried) = 3
  /\ tried[1].trigger = "blankProject"
  /\ ~ tried[1].acted
  /\ ~ tried[2].acted
  /\ tried[3].acted
  /\ pc = "cap_attach"

\* C25: a strategy succeeds only on a visible element: no trigger is ever
\* activated on an element that was located but not visible.
C25_OnlyVisibleActivated == clickedHidden = {}

\* C26: a dialog-dismissal pass runs between the activation of the trigger and
\* the capture of every arrival state.
C26_DismissalBeforeCapture ==
  (pc = "cap_attach" /\ capName # "home") => dismissed

\* The attempts of the latest resolution that ended without their click.
TimedOutClicks ==
  {tried[i].trigger : i \in {k \in 1..Len(tried) : ~ tried[k].acted}}

\* C28: a wait that exceeded its timeout is fatal to the run and the capture of
\* its step is not appended: none after a login wait, no blank-project-form
\* after the wait for the form, no project-view after a click of Continue or
\* of Create project that timed out.
C28_TimeoutIsFatal ==
  /\ timedOut \cap (LoginWaits \cup {"url", "load"}) # {} => pages = <<>>
  /\ "form" \in timedOut => "blank-project-form" \notin PageNames
  /\ TimedOutClicks \cap {"continue", "createProject"} # {} =>
       "project-view" \notin PageNames

\* The login form operations, in the order loginToAsana makes them.
LoginOrder ==
  <<"goto", "email_field", "fill_email", "submit_email",
    "password_field", "fill_password", "submit_password">>

Logged == {loginLog[i] : i \in 1..Len(loginLog)}

\* C27: login is two-stage and ordered: the secret is filled and submitted only
\* after the identifier was filled and submitted and the password field
\* appeared; when the password field does not appear within its timeout, the
\* secret is never entered and login fails.
C27_LoginTwoStage ==
  /\ IsPrefix(loginLog, LoginOrder)
  /\ "fill_password" \in Logged =>
       {"fill_email", "submit_email", "password_field"} \subseteq Logged
  /\ "password_field" \in timedOut =>
       /\ "fill_password" \notin Logged
       /\ "submit_password" \notin Logged
       /\ pc \in {"login_shot", "finally", "end"}
       /\ pages = <<>>
       /\ pc = "end" => outcome = "failed" /\ failedStep = "login"

\* C27 witness: the identifier was submitted, the password field did not
\* appear, and the run ended failed.
C27_Witness ==
  /\ pc = "end"
  /\ "password_field" \in timedOut
  /\ loginLog = SubSeq(LoginOrder, 1, 4)
  /\ outcome = "failed"

(***************************************************************************)
(* dismissDialogs, looked at alone: the loop over the close selectors, then *)
(* the Escape keystroke, every awaited primitive returning or rejecting.    *)
(***************************************************************************)
MaxPasses == 2    \* dismissDialogs calls on the same page
MaxButtons == 2   \* close selectors that find an element on the page

\* workflow.js
closeSelectors ==
  <<"button[aria-label=\"Close\"]", "button[aria-label=\"Dismiss\"]",
    "[role=\"dialog\"] button:has-text(\"×\")", "button:has-text(\"Maybe later\")",
    "button:has-text(\"Skip\")">>

\* browser.js
loginCloseSelectors ==
  <<"button[aria-label=\"Close\"]", "button[aria-label=\"Dismiss\"]",
    "[role=\"dialog\"] button:has-text(\"×\")", "[role=\"dialog\"] button.close",
    "[role=\"dialog\"] [aria-label*=\"close\" i]", "button:has-text(\"Maybe later\")",
    "button:has-text(\"Skip\")", ".modal button[aria-label=\"Close\"]">>

\* The primitive of one loop iteration that rejects, if any.
CloseFailures == {"none", "lookup", "isVisible", "click", "wait"}

\* One iteration: whether button.click() was performed.
\*   try { const button = await page.$(selector);
\*         if (button && (await button.isVisible())) {
\*           await button.click(); await page.waitForTimeout(1000); } } catch (e) {}
tryClose(found, fail) ==
  /\ fail \notin {"lookup", "isVisible", "click"}
  /\ found = "visible"

\* A plausible slip: no try block around the keystroke.
afterEscapeUncaught(rejected) == IF rejected THEN "thrown" ELSE "returned"

\* The outer try block: a rejection of the keystroke or of the wait after it is
\* ignored and dismissDialogs returns.
afterEscape(rejected) == "returned"

\* The pages dismissDialogs is called on: at most MaxButtons of the selectors
\* find an element, visible or not.
ButtonPages(list) ==
  {page \in [1..Len(list) -> ElemStates] :
     Cardinality({i \in 1..Len(list) : page[i] # "none"}) <= MaxButtons}

NoDialog == \A i \in 1..Len(buttons) : buttons[i] # "visible"

\* dismissDialogs(page) is called.
DismissCall ==
  /\ dismissPc \in {"idle", "returned"}
  /\ passes < MaxPasses
  /\ passes' = passes + 1
  /\ dismissPc' = "loop"
  /\ dismissIdx' = 1
  /\ clicks' = <<>>
  /\ escapes' = 0
  /\ swallowed' = FALSE
  /\ UNCHANGED <<closeList, buttons>>
  /\ UNCHANGED <<domVars, cssVars, testVars, scrapeVarsOfRun>>

\* One iteration of the loop; a clicked close button takes its dialog away.
DismissTry ==
  /\ dismissPc = "loop"
  /\ \E fail \in CloseFailures :
       LET clicked == tryClose(buttons[dismissIdx], fail) IN
       /\ clicks' = IF clicked THEN Append(clicks, dismissIdx) ELSE clicks
       /\ buttons' = IF clicked THEN [buttons EXCEPT ![dismissIdx] = "none"]
                     ELSE buttons
       /\ swallowed' = (swallowed \/ fail # "none")
  /\ dismissIdx' = IF dismissIdx < Len(closeList) THEN dismissIdx + 1 ELSE dismissIdx
  /\ dismissPc' = IF dismissIdx < Len(closeList) THEN "loop" ELSE "escape"
  /\ UNCHANGED <<closeList, escapes, passes>>
  /\ UNCHANGED <<domVars, cssVars, testVars, scrapeVarsOfRun>>

\* await page.keyboard.press("Escape"); await page.waitForTimeout(500): the
\* keystroke closes the dialogs still open, or the page ignores it.
DismissEscape ==
  /\ dismissPc = "escape"
  /\ \E pressed \in BOOLEAN, waited \in BOOLEAN, heeded \in BOOLEAN :
       /\ escapes' = IF pressed THEN escapes + 1 ELSE escapes
       /\ buttons' = IF pressed /\ heeded
                     THEN [i \in 1..Len(buttons) |->
                             IF buttons[i] = "visible" THEN "none" ELSE buttons[i]]
                     ELSE buttons
       /\ swallowed' = (swallowed \/ ~ pressed \/ ~ waited)
       /\ dismissPc' = afterEscape(~ pressed \/ ~ waited)
  /\ UNCHANGED <<closeList, dismissIdx, clicks, passes>>
  /\ UNCHANGED <<domVars, cssVars, testVars, scrapeVarsOfRun>>

InitDismiss ==
  /\ NetInit
  /\ DomIdle
  /\ CssIdle
  /\ TestIdle
  /\ ScrapeIdle
  /\ closeList \in {closeSelectors, loginCloseSelectors}
  /\ buttons \in ButtonPages(closeList)
  /\ dismissPc = "idle"
  /\ dismissIdx = 0
  /\ clicks = <<>>
  /\ escapes = 0
  /\ swallowed = FALSE
  /\ passes = 0

NextDismiss ==
  \/ DismissCall
  \/ DismissTry
  \/ DismissEscape

SpecDismiss == InitDismiss /\ [][NextDismiss]_vars

(***************************************************************************)
(* Claims about dialog dismissal.                                          *)
(***************************************************************************)
\* C23: dialog dismissal is non-fatal and idempotent: whatever its lookups,
\* visibility checks, clicks, keystroke and waits do, dismissDialogs never
\* throws and leaves the run as it was; it clicks visible close buttons only,
\* so a pass on a page with no dialog performs no click and leaves the page as
\* it is, the first time and the second.
C23_DismissalNonFatal ==
  /\ [](/\ dismissPc # "thrown"
        /\ outcome = "running"
        /\ failedStep = ""
        /\ escapes <= 1
        /\ (dismissPc = "returned" => dismissIdx = Len(closeList)))
  /\ [][/\ clicks' # clicks =>
             \/ clicks' = <<>>
             \/ /\ buttons[dismissIdx] = "visible"
                /\ clicks' = Append(clicks, dismissIdx)
        /\ NoDialog =>
             /\ buttons' = buttons
             /\ clicks' \in {clicks, <<>>}]_vars

\* C23 witness: the second pass on the page returned without a click, its
\* keystroke rejected, on a page with no dialog where a close selector finds a
\* hidden button.
C23_Witness ==
  /\ passes = 2
  /\ dismissPc = "returned"
  /\ swallowed
  /\ escapes = 0
  /\ clicks = <<>>
  /\ NoDialog
  /\ \E i \in 1..Len(buttons) : buttons[i] = "hidden"
  /\ Len(closeList) = Len(loginCloseSelectors)

(***************************************************************************)
(* Claims about the pending map and the flush of the correlator.           *)
(***************************************************************************)
\* C29: a pending entry is created only by the request event of an in-scope
\* request and is keyed by the request, so that two requests to one URL that
\* await their responses have one entry each; once the response handler of a
\* request has run to its end, with or without a finalized record, the request
\* has no pending entry; no request is both pending and finalized.
C29_PendingLifecycle ==
  /\ [](\A c \in Correlators :
          /\ \A d \in requestMap[c] :
               /\ d.req \in Issued
               /\ d.url = net[d.req].url
               /\ d.url \in InScopeUrls
               /\ FinalizedFor(c, d.req) = {}
          /\ \A r \in Issued :
               /\ Cardinality(Pending(c, r)) <= 1
               /\ (net[r].st = "sent" /\ net[r].url \in InScopeUrls) =>
                    Pending(c, r) # {}
          /\ \A x \in handled : x.c = c => Pending(c, x.req) = {})
  /\ [][\A c \in Correlators :
          requestMap'[c] \ requestMap[c] # {} =>
            /\ Len(net') = Len(net) + 1
            /\ requestMap'[c] \ requestMap[c] =
                 {[req |-> Len(net'), url |-> net'[Len(net')].url]}]_vars

\* C29 witness: of two requests to the same in-scope URL, one was handled
\* without a finalized record (its JSON did not parse) and has no entry, while
\* the other still has its own.
C29_Witness ==
  \E x \in handled, r \in Issued :
    /\ ParseFailed(x)
    /\ FinalizedFor(x.c, x.req) = {}
    /\ Pending(x.c, x.req) = {}
    /\ r # x.req
    /\ net[r].url = net[x.req].url
    /\ Pending(x.c, r) # {}

\* C30: saveToFile only serializes: its steps leave the pending map, the
\* finalized list, the suspended handlers and the listeners as they are, and
\* what it writes is the finalized list as it stands; the finalized list only
\* grows by appends.
C30_FlushOnlySerializes ==
  [][\A c \in Correlators :
       /\ flushPc'[c] # flushPc[c] =>
            /\ requestMap' = requestMap
            /\ apiCalls' = apiCalls
            /\ reading' = reading
            /\ attached' = attached
       /\ (flushPc[c] = "ensureDir" /\ flushPc'[c] = "writing") =>
            flushed'[c] = apiCalls[c]
       /\ flushed'[c] # flushed[c] => flushPc'[c] = "writing"
       /\ IsPrefix(apiCalls[c], apiCalls'[c])]_vars

\* C30 witness: after a flush that wrote one record, the response of a
\* request that was pending during the flush was correlated and finalized.
C30_Witness ==
  /\ flushCount = 1
  /\ flushPc[1] = "idle"
  /\ Len(flushed[1]) = 1
  /\ Len(apiCalls[1]) = 2
  /\ requestMap[1] = {}
  /\ SubSeq(apiCalls[1], 1, 1) = flushed[1]

(***************************************************************************)
(* Claims about the resources of a run.                                    *)
(***************************************************************************)
\* C38: when a scrapeAsana run has ended and its browser was launched,
\* browser.close() was called exactly once, whichever point failed (page
\* creation, login, a step, a capture or the final write); when the email or
\* the password is missing the run ends failed before any browser is launched.
C38_BrowserClosedOnce ==
  /\ closes <= 1
  /\ (pc = "end" /\ browser # "none") => closes = 1
  /\ (pc = "end" /\ ~ creds) =>
       /\ browser = "none"
       /\ closes = 0
       /\ outcome = "failed"

(***************************************************************************)
(* Captures under traffic: the run from the call of capturePageData for    *)
(* the home page to the return of the one for the create-project menu,     *)
(* while the browser issues requests and delivers responses at any time:   *)
(* during a capture, between the two captures, and while a log is written. *)
(***************************************************************************)
UrlsCapture == {UrlApi, UrlHome}

\* The page emits request and response events while the browser is open.
RequestCapture ==
  /\ browser = "open"
  /\ RequestEvent(UrlsCapture)

ResponseCapture ==
  /\ browser = "open"
  /\ ResponseEvent({CtJson}, {BodyJson, BodyBroken})

\* scrapeHomePage has just called capturePageData(page, "home", ...), after a
\* login that ended at the workspace home.
InitCapture ==
  /\ NetInit
  /\ EnvIdle
  /\ creds = TRUE
  /\ sections = BareSite
  /\ pc = "cap_attach"
  /\ idx = 1
  /\ capName = "home"
  /\ pages = <<>>
  /\ disk = {}
  /\ docWrites = 0
  /\ docPages = <<>>
  /\ browser = "open"
  /\ closes = 0
  /\ outcome = "running"
  /\ failedStep = ""
  /\ activated = {}
  /\ exhausted = {}
  /\ matched = <<"", 0>>
  /\ dismissed = TRUE
  /\ clickedHidden = {}
  /\ tried = <<>>
  /\ shots = {}
  /\ loginUrl = HomeUrl
  /\ loginLog = LoginOrder
  /\ timedOut = {}

NextCapture ==
  \/ CaptureAttach
  \/ CaptureSettle
  \/ CaptureDom
  \/ CaptureInteractive
  \/ CaptureFull
  \/ CaptureElement
  \/ CaptureSaveCall
  \/ CaptureSaveWrite
  \/ CaptureSaveReject
  \/ CapturePush
  \/ ProjectsTry
  \/ ProjectsNotFound
  \/ ProjectsWait
  \/ NewProjectTry
  \/ NewProjectScan
  \/ NewProjectNotFound
  \/ NewProjectWait
  \/ ScrapeCreateProjectPage
  \/ BrowserClose
  \/ RequestCapture
  \/ ResponseCapture
  \/ BodyRead

SpecCapture == InitCapture /\ [][NextCapture]_vars

(***************************************************************************)
(* Claims about the captures of a run under traffic.                       *)
(***************************************************************************)
\* The records of the log written by the i-th capture of the run: the i-th
\* captureNetworkTraffic call made the correlator that saveToFile wrote it from.
LogOf(i) == flushed[i]

\* C31: the correlator is session-scoped: at most one listener pair, with one
\* pending map and one finalized list, is ever attached to the page, however
\* many steps are captured, and the records flushed at an earlier step are
\* contained in the flush of every later step.
C31_OneCorrelatorPerSession ==
  /\ attached <= 1
  /\ Len(requestMap) <= 1
  /\ Len(apiCalls) <= 1
  /\ \A i, j \in 1..Len(pages) :
       i < j =>
         \A k \in 1..Len(LogOf(i)) :
           \E m \in 1..Len(LogOf(j)) : LogOf(j)[m] = LogOf(i)[k]

\* C35: in every interleaving of response events with a step's flush, the
\* ApiCall count stored in the step's PageCapture equals the number of records
\* written to the step's API call log.
C35_CountEqualsLogLength ==
  \A i \in 1..Len(pages) : pages[i].apiCalls = Len(LogOf(i))

\* The requests whose pair correlator c captured: in scope, issued after c
\* attached its listeners, and with c's response handler run to its end (the
\* body read settled).
CapturedBy(c) ==
  {r \in Issued :
     /\ net[r].url \in InScopeUrls
     /\ c <= net[r].observers
     /\ \E x \in handled : x.c = c /\ x.req = r}

\* C36: the log a step writes holds exactly the in-scope pairs whose request
\* was observed after the step's capture attached its listeners and whose body
\* read completed before the flush serialized the list, each once; a pair whose
\* request preceded the attach, whose body read finished later, or that
\* occurred between two captures is in no log, and a written log never changes.
C36_LogHoldsExactlyCapturedPairs ==
  [][\A c \in Correlators :
       IF flushPc[c] = "ensureDir" /\ flushPc'[c] = "writing"
       THEN /\ {flushed'[c][i].id : i \in 1..Len(flushed'[c])} = CapturedBy(c)
            /\ Len(flushed'[c]) = Cardinality(CapturedBy(c))
       ELSE flushed'[c] = flushed[c]]_vars

(***************************************************************************)
(* Claims about the correlator under reordered events.                     *)
(***************************************************************************)
\* C37: for each correlator, in every ordering of request events, response
\* events and body reads, every finalized ApiCall carries the identity and the
\* URL of a request that this correlator observed in scope and whose response
\* it handled, and no request identity is finalized more than once.
C37_FinalizedOncePerObservedRequest ==
  \A c \in Correlators :
    /\ \A i \in 1..Len(apiCalls[c]) :
         LET r == apiCalls[c][i].id
         IN  /\ r \in Issued
             /\ c <= net[r].observers
             /\ net[r].url \in InScopeUrls
             /\ apiCalls[c][i].url = net[r].url
             /\ \E x \in handled : x.c = c /\ x.req = r
    /\ \A r \in Issued :
         Cardinality({i \in 1..Len(apiCalls[c]) : apiCalls[c][i].id = r}) <= 1

\* C37 witness: two in-scope requests were both answered before either body
\* read settled, and the second request's read settled first.
C37_Witness ==
  /\ Len(apiCalls[1]) = 2
  /\ apiCalls[1][1].id = 2
  /\ apiCalls[1][2].id = 1
  /\ net[1].url = net[2].url
  /\ reading = {}

(***************************************************************************)
(* Claims about what a comparison counts.                                  *)
(***************************************************************************)
\* The entries of a list of match or mismatch entries that belong to a selector.
EntriesOf(entries, sel) == SelectSeq(entries, LAMBDA e : e.selector = sel)

\* C32: in a comparison that completed, a selector for which either page has
\* no matching element adds no match entry and no mismatch entry; a selector
\* both pages have elements for adds one entry per property, made from the
\* computed styles of the first matching element of each side and of no other
\* element; the score's numerator and denominator count those entries only.
C32_MissingSkippedFirstCompared ==
  ComparedPages =>
    LET made == results.tests[1]
        both == {sel \in SelectorSet :
                   /\ originalPage.elements[sel].found = "some"
                   /\ generatedPage.elements[sel].found = "some"}
    IN  /\ \A sel \in SelectorSet :
             LET o == originalPage.elements[sel]
                 g == generatedPage.elements[sel]
                 same == EntriesOf(made.cssMatches, sel)
                 differing == EntriesOf(made.cssMismatches, sel)
             IN  /\ (o.found = "none" \/ g.found = "none") =>
                      same = <<>> /\ differing = <<>>
                 /\ sel \in both =>
                      /\ Len(same) + Len(differing) = Len(styleProperties)
                      /\ \A p \in PropertySet :
                           \/ \E i \in 1..Len(same) :
                                /\ same[i].property = p
                                /\ same[i].value = o.styles[p]
                           \/ \E i \in 1..Len(differing) :
                                /\ differing[i].property = p
                                /\ differing[i].original = o.styles[p]
                                /\ differing[i].generated = g.styles[p]
        /\ Len(made.cssMatches) + Len(made.cssMismatches)
             = Len(styleProperties) * Cardinality(both)

\* C32 witness: a comparison completed in which one selector has an element on
\* the original page only, another has two elements on each page, and both
\* matches and mismatches were found.
C32_Witness ==
  /\ ComparedPages
  /\ results.tests[1].cssMatches # <<>>
  /\ results.tests[1].cssMismatches # <<>>
  /\ \E sel \in SelectorSet :
       /\ originalPage.elements[sel].found = "some"
       /\ generatedPage.elements[sel].found = "none"
  /\ \E sel \in SelectorSet :
       /\ originalPage.elements[sel].found = "some"
       /\ generatedPage.elements[sel].found = "some"
       /\ originalPage.elements[sel].more # <<>>
       /\ generatedPage.elements[sel].more # <<>>

\* C39: for every comparison that completed without a load error, passed =
\* true implies that at least one property was compared and that
\* matches * 100 >= 80 * (matches + mismatches); matchPercentage is a number
\* between 0.00 and 100.00, written with two decimals; and when no selector is
\* present on both sides the result is passed = false.
C39_PassedAndPercentageInRange ==
  \A i \in 1..Len(results.tests) :
    LET t == results.tests[i]
        count == Len(t.cssMatches)
        total == Len(t.cssMatches) + Len(t.cssMismatches)
    IN  t.error = JsUndefined =>
          /\ t.passed => (total > 0 /\ count * 100 >= PassThreshold * total)
          /\ total = 0 => t.passed = FALSE
          /\ \E h \in 0..10000 : t.matchPercentage = JsString(TwoDecimals(h))

(***************************************************************************)
(* Claims about the batch of comparisons.                                  *)
(***************************************************************************)
\* C33: comparisons run one at a time: a comparison starts only when every
\* earlier one has delivered its result, at most two comparison pages are open
\* at any moment, and while the batch goes on both pages of a comparison are
\* closed before the next page identifier's comparison starts, also when the
\* comparison failed.
C33_ComparisonsSequential ==
  /\ openPages <= 2
  /\ testPc = "loop" =>
       /\ openPages = 0
       /\ Len(results.tests) = testIdx - 1
  /\ testPc = "comparing" =>
       /\ openPages = 2
       /\ Len(results.tests) = testIdx - 1
  /\ testPc = "done" => openPages = 0

\* C33 witness: the first comparison failed on a page that did not load, and
\* the second comparison is in progress with its own two pages open.
C33_Witness ==
  /\ testPc = "comparing"
  /\ testIdx = 2
  /\ openPages = 2
  /\ results.tests[1].error # JsUndefined

(***************************************************************************)
(* Termination of a run. scrapeAsana is one sequence of awaited            *)
(* primitives, and every primitive returns or rejects within its timeout:  *)
(* a step that can be taken is eventually taken.                           *)
(***************************************************************************)
SpecLive == Init /\ [][Next]_vars /\ WF_vars(Next)

\* Positions of scrapeAsana in program order: the statements of a capture are
\* told apart by the step that is captured.
PlainPositions(labels) == [i \in 1..Len(labels) |-> <<labels[i], "">>]
CapturePositions(pageName) ==
  [i \in 1..Len(CaptureLabels) |-> <<CaptureLabels[i], pageName>>]

ProgramOrder ==
  PlainPositions(<<"start", "launch", "newPage", "login_email", "login_password",
                   "login_url", "login_shot", "login_dismiss", "home_scrape">>)
  \o CapturePositions("home")
  \o PlainPositions(<<"projects_try", "projects_none", "projects_wait",
                      "newProject_try", "newProject_scan", "newProject_none",
                      "newProject_wait", "scrape_menu">>)
  \o CapturePositions("create-project-menu")
  \o PlainPositions(<<"blank_prepare", "blank_text", "blank_try", "blank_scan",
                      "blank_none", "blank_form", "blank_catch">>)
  \o CapturePositions("blank-project-form")
  \o PlainPositions(<<"name_try", "name_none", "name_wait", "continue_try",
                      "continue_none", "continue_wait", "create_try",
                      "create_none", "create_wait", "scrape_project">>)
  \o CapturePositions("project-view")
  \o PlainPositions(<<"mytasks_try", "mytasks_none", "mytasks_wait", "scrape_tasks">>)
  \o CapturePositions("my-tasks")
  \o PlainPositions(<<"write_doc", "finally", "end">>)

\* The rank of a position in program order (0 for a position that is not one).
Rank(label, pageName) ==
  LET position == IF \E i \in 1..Len(CaptureLabels) : CaptureLabels[i] = label
                  THEN <<label, pageName>>
                  ELSE <<label, "">>
      at == {i \in 1..Len(ProgramOrder) : ProgramOrder[i] = position}
  IN  IF at = {} THEN 0 ELSE CHOOSE i \in at : TRUE

\* C34: every run eventually reaches a terminal state, which is Done (the five
\* captures appended in step order and the session document written) or Failed
\* (an error reached the caller); every step of the run leads to a later
\* position of the workflow, or to the next strategy of the selector loop it
\* is in: no position is entered twice and the workflow never moves backwards.
C34_RunTerminatesForward ==
  /\ <>(pc = "end")
  /\ [](pc = "end" =>
          \/ /\ outcome = "done"
             /\ Names(pages) = StepOrder
             /\ Names(docPages) = StepOrder
             /\ docWrites = 1
          \/ /\ outcome = "failed"
             /\ failedStep # "")
  /\ [](Rank(pc, capName) > 0)
  /\ [][\/ Rank(pc', capName') > Rank(pc, capName)
        \/ /\ Rank(pc', capName') = Rank(pc, capName)
           /\ idx' > idx]_vars

\* C34 witness: a run ended Done after all five captures, having gone through
\* every strategy of a selector loop on its way.
C34_Witness ==
  /\ pc = "end"
  /\ outcome = "done"
  /\ Len(pages) = Len(StepOrder)
  /\ browser = "closed"
  /\ exhausted # {}

====
